---- MODULE Spec2Model ----
(***************************************************************************)
(* A model of the nutrition tracker (Django application `nutrition`):      *)
(* the relational store with its uniqueness constraints (models.py), the   *)
(* write paths of the forms (forms.py) as the views call them (views.py),  *)
(* the dashboard's aggregation, goal progress and weight forecast, and the *)
(* OpenFoodFacts client (services/openfoodfacts.py) with the search cache  *)
(* and the import of a product into the catalogue.                         *)
(*                                                                         *)
(* Conventions.                                                            *)
(*  - A table is a sequence of rows; a row's primary key is its index.     *)
(*    No operation modelled here deletes a row.                            *)
(*  - A nullable column / Optional value is a set with at most one         *)
(*    element: None is {}, Some(v) is {v}.                                 *)
(*  - Dates are day numbers (integers).                                    *)
(*  - Decimal columns hold whole numbers here; a nutrient amount (a float  *)
(*    in the code) is kept as a number of hundredths, and the amounts of   *)
(*    the dashboard's inputs are floats exactly (AmountsExact).  The       *)
(*    division and multiplication of dashboard.pct are float operations,   *)
(*    rounded as binary64 rounds them.                                     *)
(*  - Every database statement is one atomic step (autocommit); a request  *)
(*    that issues several statements is several steps of its worker.       *)
(*  - A text is a sequence of characters; a JSON value of the upstream is   *)
(*    tagged with its Python type; cache and upstream may fail at any call. *)
(***************************************************************************)
EXTENDS Integers, Sequences, FiniteSets, TLC

(* ------------------------------ bounds --------------------------------- *)

\* The clock starts at DayZero and advances to at most DayZero + MaxTicks.
MaxTicks == 1

\* Table sizes the write paths may reach.
MaxGoals == 3

MaxWeightLogs == 2

MaxFoodItems == 3

MaxMeals == 2

MaxMealItems == 2

\* The hours the clock of the cache runs for.
MaxHours == 6

(* --------------------------- input domains ----------------------------- *)

\* The request workers that may run handlers concurrently.
Procs == {"w1", "w2"}

Users == {"u1", "u2"}

DayZero == 20

None == {}

Some(v) == {v}

IsNone(o) == o = {}

\* The value of a non-empty optional.
Val(o) == CHOOSE v \in o : TRUE

\* Target profiles a goal form is posted with: daily kcal / protein / fat /
\* carb targets.  The profile without a kcal target is an invalid post.
GoalTargets ==
  { [kcal |-> Some(2000), protein |-> None,     fat |-> None,    carb |-> None],
    [kcal |-> Some(30),   protein |-> Some(10), fat |-> Some(0), carb |-> Some(5)],
    [kcal |-> None,       protein |-> Some(10), fat |-> None,    carb |-> None] }

GoalStartDates == {DayZero}

GoalStartWeights == {None}

\* cleaned POST data of GoalForm (its Meta.fields)
GoalInputs ==
  { [ start_date           |-> Some(sd),
      target_date          |-> None,
      start_weight_kg      |-> sw,
      target_weight_kg     |-> None,
      daily_kcal_target    |-> t.kcal,
      daily_protein_target |-> t.protein,
      daily_fat_target     |-> t.fat,
      daily_carb_target    |-> t.carb ] :
    sd \in GoalStartDates, sw \in GoalStartWeights, t \in GoalTargets }

\* cleaned POST data of WeightLogForm: dated today or tomorrow (as seen at
\* DayZero); one post lacks the date.
WeightDates == {DayZero, DayZero + 1}

WeightInputs ==
  { [date |-> Some(d), weight_kg |-> Some(70)] : d \in WeightDates }
  \cup { [date |-> None, weight_kg |-> Some(70)] }

\* cleaned POST data of ManualFoodItemForm: per-100g densities.  The first is
\* the food of tests.py; the form does not refuse a negative density.
FoodInputs ==
  { [kcal_per_100g |-> Some(100), protein_per_100g |-> Some(10),
     fat_per_100g  |-> Some(5),   carb_per_100g    |-> Some(20)],
    [kcal_per_100g |-> Some(-40), protein_per_100g |-> Some(0),
     fat_per_100g  |-> Some(3),   carb_per_100g    |-> Some(0)],
    [kcal_per_100g |-> None,      protein_per_100g |-> Some(1),
     fat_per_100g  |-> Some(1),   carb_per_100g    |-> Some(1)] }

\* Meal.Type.choices (two of the four slots are exercised)
MealTypes == {"breakfast", "lunch"}

\* The oldest day of the dashboard's window at DayZero, DayZero itself and the
\* day after.
MealDates == {DayZero - 13, DayZero, DayZero + 1}

Grams == {0, 50}

\* POST data of AddMealItemForm; food_item is a primary key of FoodItem.
MealItemInputs(dates, foods) ==
  { [date |-> d, type |-> t, food_item |-> f, grams |-> g] :
    d \in dates, t \in MealTypes, f \in foods, g \in Grams }

(* ------------------------------- state --------------------------------- *)

VARIABLES
  today,       \* timezone.localdate()
  goals,       \* table Goal
  weightLogs,  \* table WeightLog
  foodItems,   \* table FoodItem
  meals,       \* table Meal
  mealItems,   \* table MealItem
  req,         \* per worker: the request it is handling, or handled last
  ctx,         \* the template context of the dashboard being rendered
  cache,       \* django.core.cache: the entries it holds
  clock,       \* hours elapsed, the time the cache's expiry is measured in
  srch,        \* the call of OpenFoodFactsClient.search in progress, or the last
  client       \* a browser: who is logged in, its theme cookie, its session

vars == <<today, goals, weightLogs, foodItems, meals, mealItems, req, ctx,
          cache, clock, srch, client>>

\* The state of the catalogue client, which the diary's requests leave alone.
offVars == <<cache, clock, srch>>

\* No call of search has been made.
NoSearch ==
  [pc |-> "idle", arg |-> {}, query |-> <<>>, limit |-> 0, cacheOps |-> <<>>,
   requests |-> <<>>, answers |-> <<>>, outcome |-> "none", result |-> <<>>]

\* A browser that has not been to the site: nobody logged in, no theme
\* cookie, nothing in the session, no response received.
NewClient ==
  [user |-> "anonymous", cookie |-> {}, session |-> {}, before |-> "none",
   last |-> "none", set_cookie |-> {}]

InitOff ==
  /\ cache = {}
  /\ clock = 0
  /\ srch = NoSearch
  /\ client = NewClient

\* No dashboard is being rendered: the context of a response is gone once
\* the response is sent, that is, at the next step of any request.
NoCtx == [user |-> "none"]

NoForm == [none |-> TRUE]

Idle == [pc |-> "idle", op |-> "none", user |-> "none", form |-> NoForm,
         ref |-> 0, item |-> 0, caught |-> FALSE, outcome |-> "none"]

\* A worker that finished its request: the request, the rows it used (ref,
\* item), whether get_or_create caught an IntegrityError (caught) and how the
\* request ended stay readable until the worker takes the next one.
Finished(r, out) == [r EXCEPT !.pc = "idle", !.outcome = out]

Init ==
  /\ today = DayZero
  /\ goals = <<>>
  /\ weightLogs = <<>>
  /\ foodItems = <<>>
  /\ meals = <<>>
  /\ mealItems = <<>>
  /\ req = [p \in Procs |-> Idle]
  /\ ctx = NoCtx
  /\ InitOff

Tick ==
  /\ today < DayZero + MaxTicks
  /\ today' = today + 1
  /\ ctx' = NoCtx
  /\ UNCHANGED offVars
  /\ UNCHANGED client
  /\ UNCHANGED <<goals, weightLogs, foodItems, meals, mealItems, req>>

(* ------------------------------- Goal ---------------------------------- *)

\* Goal.objects.filter(user=u, is_active=True): the matching primary keys.
ActiveGoalIds(gs, u) ==
  {i \in 1..Len(gs) : gs[i].user = u /\ gs[i].is_active}

\* .first() of that queryset: the row ordering is -is_active, -start_date,
\* -id; 0 stands for None.
FirstActiveGoal(gs, u) ==
  LET ids == ActiveGoalIds(gs, u)
  IN  IF ids = {} THEN 0
      ELSE CHOOSE i \in ids : \A j \in ids :
             \/ gs[i].start_date > gs[j].start_date
             \/ gs[i].start_date = gs[j].start_date /\ i >= j

UniqActiveGoal_Off(gs) == TRUE

\* Goal.Meta.constraints: UniqueConstraint(fields=["user"],
\* condition=Q(is_active=True), name="uniq_active_goal").
UniqActiveGoal(gs) ==
  \A i, j \in 1..Len(gs) :
    (gs[i].user = gs[j].user /\ gs[i].is_active /\ gs[j].is_active) => i = j

\* GoalForm.is_valid(): start_date and daily_kcal_target are required, the
\* PositiveIntegerFields must not be negative.  The unique constraint is not
\* validated by the form, because `user` is not one of its fields.
GoalFormValid(f) ==
  /\ ~IsNone(f.start_date)
  /\ ~IsNone(f.daily_kcal_target)
  /\ \A o \in {f.daily_kcal_target, f.daily_protein_target,
               f.daily_fat_target, f.daily_carb_target} :
       \A v \in o : v >= 0

\* The row construct_instance() + GoalForm.save() write: the form's fields,
\* then obj.user = user and obj.is_active = True.
GoalRow(u, f) ==
  [ user                 |-> u,
    is_active            |-> TRUE,
    start_date           |-> Val(f.start_date),
    target_date          |-> f.target_date,
    start_weight_kg      |-> f.start_weight_kg,
    target_weight_kg     |-> f.target_weight_kg,
    daily_kcal_target    |-> Val(f.daily_kcal_target),
    daily_protein_target |-> f.daily_protein_target,
    daily_fat_target     |-> f.daily_fat_target,
    daily_carb_target    |-> f.daily_carb_target ]

\* set_goal, POST: goal = Goal.objects.filter(...).first();
\* form = GoalForm(request.POST, instance=goal); form.is_valid().
SetGoalRead(p, u, f) ==
  /\ req[p].pc = "idle"
  /\ LET r == [pc |-> "sg_deactivate", op |-> "set_goal", user |-> u,
               form |-> f, ref |-> FirstActiveGoal(goals, u),
               item |-> 0, caught |-> FALSE, outcome |-> "none"]
     IN  req' = [req EXCEPT ![p] =
                   IF GoalFormValid(f) THEN r ELSE Finished(r, "invalid")]
  /\ ctx' = NoCtx
  /\ UNCHANGED offVars
  /\ UNCHANGED client
  /\ UNCHANGED <<today, goals, weightLogs, foodItems, meals, mealItems>>

\* GoalForm.save, first statement:
\* Goal.objects.filter(user=user, is_active=True).update(is_active=False)
SetGoalDeactivate(p) ==
  /\ req[p].pc = "sg_deactivate"
  /\ goals' = [i \in 1..Len(goals) |->
                 IF goals[i].user = req[p].user /\ goals[i].is_active
                 THEN [goals[i] EXCEPT !.is_active = FALSE]
                 ELSE goals[i]]
  /\ req' = [req EXCEPT ![p].pc = "sg_save"]
  /\ ctx' = NoCtx
  /\ UNCHANGED offVars
  /\ UNCHANGED client
  /\ UNCHANGED <<today, weightLogs, foodItems, meals, mealItems>>

\* The table after obj.save(): an UPDATE of the row that `instance` names,
\* or an INSERT when the form was built with instance=None.
GoalSaved(gs, ref, row) ==
  IF ref # 0 THEN [gs EXCEPT ![ref] = row] ELSE Append(gs, row)

\* GoalForm.save, obj.save(): the statement is refused by the store
\* (IntegrityError, not caught by set_goal) when it breaks uniq_active_goal.
SetGoalSave(p) ==
  /\ req[p].pc = "sg_save"
  /\ req[p].ref = 0 => Len(goals) < MaxGoals
  /\ LET after == GoalSaved(goals, req[p].ref, GoalRow(req[p].user, req[p].form))
     IN  IF UniqActiveGoal(after)
         THEN /\ goals' = after
              /\ req' = [req EXCEPT ![p] = Finished(req[p], "saved")]
         ELSE /\ goals' = goals
              /\ req' = [req EXCEPT ![p] = Finished(req[p], "IntegrityError")]
  /\ ctx' = NoCtx
  /\ UNCHANGED offVars
  /\ UNCHANGED client
  /\ UNCHANGED <<today, weightLogs, foodItems, meals, mealItems>>

NextGoal ==
  \/ \E p \in Procs, u \in Users, f \in GoalInputs : SetGoalRead(p, u, f)
  \/ \E p \in Procs : SetGoalDeactivate(p)
  \/ \E p \in Procs : SetGoalSave(p)

SpecGoal == Init /\ [][NextGoal]_vars

(* ----------------------------- WeightLog -------------------------------- *)

UniqWeightLogPerDay_Off(ws) == TRUE

\* WeightLog.Meta.constraints: UniqueConstraint(fields=["user", "date"],
\* name="uniq_weightlog_per_day").
UniqWeightLogPerDay(ws) ==
  \A i, j \in 1..Len(ws) :
    (ws[i].user = ws[j].user /\ ws[i].date = ws[j].date) => i = j

clean_date_Off(d, now) == TRUE

\* WeightLogForm.clean_date: `if d and d > timezone.localdate(): raise
\* ValidationError`; TRUE when the date passes.
clean_date(d, now) == ~(~IsNone(d) /\ Val(d) > now)

\* WeightLogForm.is_valid(): both fields are required, then clean_date.  The
\* unique constraint is not validated by the form (`user` is not a field).
WeightLogFormValid(f, now) ==
  /\ ~IsNone(f.date)
  /\ ~IsNone(f.weight_kg)
  /\ clean_date(f.date, now)

\* add_weight, POST: form.is_valid(), then WeightLogForm.save(user=...):
\* obj.user = user; obj.save() is an INSERT, refused by the store
\* (IntegrityError, not caught by the view) when it breaks the constraint.
AddWeight(p, u, f) ==
  /\ req[p].pc = "idle"
  /\ LET r   == [pc |-> "idle", op |-> "add_weight", user |-> u, form |-> f,
                 ref |-> 0, item |-> 0, caught |-> FALSE, outcome |-> "none"]
         row == [user |-> u, date |-> Val(f.date), weight_kg |-> Val(f.weight_kg),
                 created_at |-> today]
     IN  IF ~WeightLogFormValid(f, today)
         THEN /\ weightLogs' = weightLogs
              /\ req' = [req EXCEPT ![p] = Finished(r, "invalid")]
         ELSE IF UniqWeightLogPerDay(Append(weightLogs, row))
         THEN /\ Len(weightLogs) < MaxWeightLogs
              /\ weightLogs' = Append(weightLogs, row)
              /\ req' = [req EXCEPT ![p] = Finished(r, "saved")]
         ELSE /\ weightLogs' = weightLogs
              /\ req' = [req EXCEPT ![p] = Finished(r, "IntegrityError")]
  /\ ctx' = NoCtx
  /\ UNCHANGED offVars
  /\ UNCHANGED client
  /\ UNCHANGED <<today, goals, foodItems, meals, mealItems>>

NextWeight ==
  \/ \E p \in Procs, u \in Users, f \in WeightInputs : AddWeight(p, u, f)
  \/ Tick

SpecWeight == Init /\ [][NextWeight]_vars

(* ------------------------------ FoodItem ------------------------------- *)

\* ManualFoodItemForm.is_valid(): the four densities are required decimals.
ManualFoodItemFormValid(f) ==
  /\ ~IsNone(f.kcal_per_100g)
  /\ ~IsNone(f.protein_per_100g)
  /\ ~IsNone(f.fat_per_100g)
  /\ ~IsNone(f.carb_per_100g)

\* The row add_food_manual writes: food = form.save(commit=False);
\* food.source = MANUAL.  The view sets no owner, and external_id keeps its
\* default, the empty text.
FoodRow(f) ==
  [user             |-> None,
   kcal_per_100g    |-> Val(f.kcal_per_100g),
   protein_per_100g |-> Val(f.protein_per_100g),
   fat_per_100g     |-> Val(f.fat_per_100g),
   carb_per_100g    |-> Val(f.carb_per_100g),
   source           |-> "manual",
   external_id      |-> <<>>]

\* add_food_manual, POST: form.is_valid(), then food.save().
AddFoodManual(p, f) ==
  /\ req[p].pc = "idle"
  /\ LET r   == [pc |-> "idle", op |-> "add_food_manual", user |-> "none",
                 form |-> f, ref |-> 0, item |-> 0, caught |-> FALSE, outcome |-> "none"]
         row == FoodRow(f)
     IN  IF ~ManualFoodItemFormValid(f)
         THEN /\ foodItems' = foodItems
              /\ req' = [req EXCEPT ![p] = Finished(r, "invalid")]
         ELSE /\ Len(foodItems) < MaxFoodItems
              /\ foodItems' = Append(foodItems, row)
              /\ req' = [req EXCEPT ![p] = Finished(r, "saved")]
  /\ ctx' = NoCtx
  /\ UNCHANGED offVars
  /\ UNCHANGED client
  /\ UNCHANGED <<today, goals, weightLogs, meals, mealItems>>

(* --------------------------- Meal, MealItem ---------------------------- *)

UniqMealPerDayType_Off(ms) == TRUE

\* Meal.Meta.constraints: UniqueConstraint(fields=["user", "date", "type"],
\* name="uniq_meal_per_day_type").
UniqMealPerDayType(ms) ==
  \A i, j \in 1..Len(ms) :
    (ms[i].user = ms[j].user /\ ms[i].date = ms[j].date /\ ms[i].type = ms[j].type)
      => i = j

MealGet_AnySlot(ms, u, d, t) ==
  LET ids == {i \in 1..Len(ms) : ms[i].user = u /\ ms[i].date = d}
  IN  IF ids = {} THEN 0 ELSE CHOOSE i \in ids : TRUE

\* Meal.objects.get(user=u, date=d, type=t) inside get_or_create: the primary
\* key of the matching row, 0 for DoesNotExist.
MealGet(ms, u, d, t) ==
  LET ids == {i \in 1..Len(ms) : ms[i].user = u /\ ms[i].date = d /\ ms[i].type = t}
  IN  IF ids = {} THEN 0 ELSE CHOOSE i \in ids : TRUE

\* AddMealItemForm.__init__: the food_item queryset is FoodItem.objects.none()
\* unless the form is built with user=..., and then the user's own and the
\* ownerless rows.
FoodQueryset(fs, formUser) ==
  IF IsNone(formUser) THEN {}
  ELSE {i \in 1..Len(fs) : fs[i].user = formUser \/ IsNone(fs[i].user)}

\* AddMealItemForm.is_valid(): food_item must be in the queryset, grams has
\* min_value=1.
AddMealItemFormValid(f, fs, formUser) ==
  /\ f.food_item \in FoodQueryset(fs, formUser)
  /\ f.grams >= 1

\* AddMealItemForm(data, user=formUser).is_valid(), then save(user=u), first
\* statement: the SELECT of Meal.objects.get_or_create.
AddMealItemGet(p, u, f, formUser) ==
  /\ req[p].pc = "idle"
  /\ LET found == MealGet(meals, u, f.date, f.type)
         r == [pc |-> IF found = 0 THEN "mi_create" ELSE "mi_item",
               op |-> "add_meal_item", user |-> u, form |-> f, ref |-> found,
               item |-> 0, caught |-> FALSE, outcome |-> "none"]
     IN  req' = [req EXCEPT ![p] =
                   IF AddMealItemFormValid(f, foodItems, formUser)
                   THEN r ELSE Finished(r, "invalid")]
  /\ ctx' = NoCtx
  /\ UNCHANGED offVars
  /\ UNCHANGED client
  /\ UNCHANGED <<today, goals, weightLogs, foodItems, meals, mealItems>>

\* get_or_create after DoesNotExist: the INSERT; when the store refuses it
\* (IntegrityError) the row is fetched again, and the error is raised only if
\* it is still missing.
AddMealItemCreate(p) ==
  /\ req[p].pc = "mi_create"
  /\ LET r     == req[p]
         after == Append(meals, [user |-> r.user, date |-> r.form.date,
                                 type |-> r.form.type])
         again == MealGet(meals, r.user, r.form.date, r.form.type)
     IN  IF UniqMealPerDayType(after)
         THEN /\ Len(meals) < MaxMeals
              /\ meals' = after
              /\ req' = [req EXCEPT ![p].pc = "mi_item", ![p].ref = Len(after)]
         ELSE /\ meals' = meals
              /\ req' = [req EXCEPT ![p] =
                           IF again # 0
                           THEN [r EXCEPT !.pc = "mi_item", !.ref = again,
                                          !.caught = TRUE]
                           ELSE Finished(r, "IntegrityError")]
  /\ ctx' = NoCtx
  /\ UNCHANGED offVars
  /\ UNCHANGED client
  /\ UNCHANGED <<today, goals, weightLogs, foodItems, mealItems>>

\* MealItem.objects.create(meal=meal, food_item=..., grams=...); the worker
\* keeps the new row's primary key.
AddMealItemInsert(p) ==
  /\ req[p].pc = "mi_item"
  /\ Len(mealItems) < MaxMealItems
  /\ mealItems' = Append(mealItems, [meal |-> req[p].ref,
                                     food_item |-> req[p].form.food_item,
                                     grams |-> req[p].form.grams])
  /\ req' = [req EXCEPT ![p] =
               [Finished(req[p], "saved") EXCEPT !.item = Len(mealItems) + 1]]
  /\ ctx' = NoCtx
  /\ UNCHANGED offVars
  /\ UNCHANGED client
  /\ UNCHANGED <<today, goals, weightLogs, foodItems, meals>>

NextMeal ==
  \/ \E p \in Procs, u \in Users,
        f \in MealItemInputs({DayZero}, {1}) :
       AddMealItemGet(p, u, f, Some(u))
  \/ \E p \in Procs : AddMealItemCreate(p)
  \/ \E p \in Procs : AddMealItemInsert(p)

\* The store once the catalogue holds the two valid foods of FoodInputs, as two
\* add_food_manual requests leave it (AddFoodManual, twice, from Init).
InitCatalogue ==
  /\ today = DayZero
  /\ goals = <<>>
  /\ weightLogs = <<>>
  /\ foodItems = <<FoodRow(CHOOSE f \in FoodInputs : f.kcal_per_100g = Some(100)),
                   FoodRow(CHOOSE f \in FoodInputs : f.kcal_per_100g = Some(-40))>>
  /\ meals = <<>>
  /\ mealItems = <<>>
  /\ req = [p \in Procs |-> Idle]
  /\ ctx = NoCtx
  /\ InitOff

SpecMeal == InitCatalogue /\ [][NextMeal]_vars

(* ------------------------------ dashboard ------------------------------ *)

\* The dashboard's window reaches back `start = today - dt.timedelta(days=13)`.
WindowDays == 13

\* Densities are per 100 g: the `/ 100.0` of the aggregation.  An amount is
\* kept as its numerator over Per100, so that sums are exact.
Per100 == 100

Percent == 100

Nutrients == {"kcal", "protein", "fat", "carb"}

\* The FoodItem column a nutrient is read from.
DensityOf(food, n) ==
  CASE n = "kcal"    -> food.kcal_per_100g
    [] n = "protein" -> food.protein_per_100g
    [] n = "fat"     -> food.fat_per_100g
    [] n = "carb"    -> food.carb_per_100g

\* MealItem._scaled: (float(self.grams) / 100.0) * float(per_100g), as a
\* number of hundredths.
scaled(grams, per_100g) == grams * per_100g

\* The annotation F("grams_f") * F("kcal100_f") / 100.0 of the dashboard's
\* query (and its like for protein, fat, carb), as a number of hundredths.
Annotated(fs, it, n) == it.grams * DensityOf(fs[it.food_item], n)

RECURSIVE SumOver(_, _, _, _)
\* Sum("kcal") over the MealItem rows `ids`.
SumOver(fs, its, ids, n) ==
  IF ids = {} THEN 0
  ELSE LET i == CHOOSE j \in ids : TRUE
       IN  Annotated(fs, its[i], n) + SumOver(fs, its, ids \ {i}, n)

RECURSIVE Ascending(_)
\* order_by("day"): the days of a set, oldest first.
Ascending(S) ==
  IF S = {} THEN <<>>
  ELSE LET d == CHOOSE x \in S : \A y \in S : x <= y
       IN  <<d>> \o Ascending(S \ {d})

FilterItems_AnyUser(ms, its, u, lo, hi) ==
  {i \in 1..Len(its) : ms[its[i].meal].date >= lo /\ ms[its[i].meal].date <= hi}

\* MealItem.objects.filter(meal__user=u, meal__date__range=(lo, hi)): the
\* primary keys of the matching rows.
FilterItems(ms, its, u, lo, hi) ==
  {i \in 1..Len(its) :
     /\ ms[its[i].meal].user = u
     /\ ms[its[i].meal].date >= lo
     /\ ms[its[i].meal].date <= hi}

\* The dashboard's queryset as a list: the filtered rows, grouped by
\* values("day") and summed per nutrient, ordered by day.
DailyQuery(fs, ms, its, u, lo, hi) ==
  LET rows    == FilterItems(ms, its, u, lo, hi)
      days    == Ascending({ms[its[i].meal].date : i \in rows})
      of(d)   == {i \in rows : ms[its[i].meal].date = d}
  IN  [k \in 1..Len(days) |->
         [day         |-> days[k],
          kcal_sum    |-> SumOver(fs, its, of(days[k]), "kcal"),
          protein_sum |-> SumOver(fs, its, of(days[k]), "protein"),
          fat_sum     |-> SumOver(fs, its, of(days[k]), "fat"),
          carb_sum    |-> SumOver(fs, its, of(days[k]), "carb")]]

\* pd.date_range(start=lo, end=hi, freq="D")
date_range(lo, hi) == [k \in 1..(hi - lo + 1) |-> lo + (k - 1)]

reindex_NoFill(df, all_days) == df

\* df.set_index("day").reindex(all_days).fillna(0.0).reset_index(): one row
\* per day of all_days, the frame's row of that day or zeros.
reindex(df, all_days) ==
  [k \in 1..Len(all_days) |->
     IF \E j \in 1..Len(df) : df[j].day = all_days[k]
     THEN df[CHOOSE j \in 1..Len(df) : df[j].day = all_days[k]]
     ELSE [day |-> all_days[k], kcal_sum |-> 0, protein_sum |-> 0,
           fat_sum |-> 0, carb_sum |-> 0]]

\* row["kcal_sum"] and its like: the frame's column of a nutrient.
Column(row, n) ==
  CASE n = "kcal"    -> row.kcal_sum
    [] n = "protein" -> row.protein_sum
    [] n = "fat"     -> row.fat_sum
    [] n = "carb"    -> row.carb_sum

\* today_stats = df[df["day"].dt.date == today]; the first row's column, or
\* 0.0 when there is none.
TodayStat(df, now, n) ==
  LET hit == {k \in 1..Len(df) : df[k].day = now}
  IN  IF hit = {} THEN 0
      ELSE Column(df[CHOOSE k \in hit : \A j \in hit : k <= j], n)

\* Python's float is the IEEE 754 binary64 format: 53 significant bits.
Prec == 53

\* A positive float is [e, m]: m its Prec significant bits, the most
\* significant first (m[1] = 1), and its value the sum of m[i] * 2^(e - i + 1).

RECURSIVE Normalise(_, _, _)
\* p/d as (p'/d') * 2^e with d' <= p' < 2 * d'.
Normalise(p, d, e) ==
  IF p >= 2 * d THEN Normalise(p, 2 * d, e + 1)
  ELSE IF p < d THEN Normalise(2 * p, d, e - 1)
  ELSE [p |-> p, d |-> d, e |-> e]

RECURSIVE LongDiv(_, _, _)
\* The first n binary digits of rem/d (rem < 2 * d, n > 0), and what is
\* left over.
LongDiv(rem, d, n) ==
  IF n = 1
  THEN LET b == IF rem >= d THEN 1 ELSE 0
       IN  [bits |-> <<b>>, rem |-> 2 * (rem - b * d)]
  ELSE LET high == LongDiv(rem, d, n \div 2)
           low  == LongDiv(high.rem, d, n - n \div 2)
       IN  [bits |-> high.bits \o low.bits, rem |-> low.rem]

\* bits + 1; one digit longer when the carry leaves at the top.
Increment(bits) ==
  LET zeros == {i \in 1..Len(bits) : bits[i] = 0}
  IN  IF zeros = {} THEN <<1>> \o [i \in 1..Len(bits) |-> 0]
      ELSE LET z == CHOOSE i \in zeros : \A j \in zeros : j <= i
           IN  [i \in 1..Len(bits) |->
                  IF i < z THEN bits[i] ELSE IF i = z THEN 1 ELSE 0]

\* Round to nearest, ties to even, the rounding of every float operation:
\* `bits` are more than Prec digits of the exact result of exponent e,
\* `sticky` says that nonzero digits follow them.
RoundNearestEven(bits, sticky, e) ==
  LET kept == SubSeq(bits, 1, Prec)
      rest == sticky \/ \E i \in (Prec + 2)..Len(bits) : bits[i] = 1
      up   == bits[Prec + 1] = 1 /\ (rest \/ kept[Prec] = 1)
      inc  == Increment(kept)
  IN  IF ~up THEN [e |-> e, m |-> kept]
      ELSE IF Len(inc) > Prec THEN [e |-> e + 1, m |-> SubSeq(inc, 1, Prec)]
      ELSE [e |-> e, m |-> inc]

\* The float p / d of two positive numbers whose quotient is p/d exactly.
FloatDiv(p, d) ==
  LET nz == Normalise(p, d, 0)
      q  == LongDiv(nz.p, nz.d, Prec + 1)
  IN  RoundNearestEven(q.bits, q.rem # 0, nz.e)

RECURSIVE Binary(_)
\* The binary digits of a natural number, none for 0.
Binary(x) == IF x = 0 THEN <<>> ELSE Binary(x \div 2) \o <<x % 2>>

Reverse(s) == [i \in 1..Len(s) |-> s[Len(s) + 1 - i]]

RECURSIVE Times(_, _, _)
\* The Len(bits) low binary digits of bits * k + carry, the least significant
\* first, and the carry out of them.
Times(bits, k, carry) ==
  IF Len(bits) = 1
  THEN LET x == bits[1] * k + carry
       IN  [bits |-> <<x % 2>>, carry |-> x \div 2]
  ELSE LET h    == Len(bits) \div 2
           low  == Times(SubSeq(bits, h + 1, Len(bits)), k, carry)
           high == Times(SubSeq(bits, 1, h), k, low.carry)
       IN  [bits |-> low.bits \o high.bits, carry |-> high.carry]

\* The float f * k of a positive float and a positive whole number.
FloatMul(f, k) ==
  LET t    == Times(f.m, k, 0)
      prod == Binary(t.carry) \o Reverse(t.bits)
  IN  IF Len(prod) = Prec THEN [e |-> f.e, m |-> prod]
      ELSE RoundNearestEven(prod, FALSE, f.e + (Len(prod) - Prec))

RECURSIVE BitsValue(_)
BitsValue(bits) ==
  IF bits = <<>> THEN 0
  ELSE 2 * BitsValue(SubSeq(bits, 1, Len(bits) - 1)) + bits[Len(bits)]

\* int(min(100.0, f)) of a positive float: its whole part, or 100 when the
\* float is 100.0 or more (a float of exponent e is at least 2^e).
IntOfMin(f) ==
  IF f.e < 0 THEN 0
  ELSE IF f.e >= Len(Binary(Percent)) THEN Percent
  ELSE LET whole == BitsValue(SubSeq(f.m, 1, f.e + 1))
       IN  IF whole >= Percent THEN Percent ELSE whole

\* dashboard.pct: tval = float(target) if target is not None else 0.0;
\* None if tval <= 0; else int(max(0.0, min(100.0, (value / tval) * 100.0))).
\* `value` is a number of hundredths that is a float exactly (AmountsExact).
pct(value, target) ==
  LET tval == IF IsNone(target) THEN 0 ELSE Val(target)
  IN  IF tval <= 0 THEN None
      ELSE IF value <= 0 THEN Some(0)
      ELSE Some(IntOfMin(FloatMul(FloatDiv(value, Per100 * tval), Percent)))

\* getattr(goal, "daily_<n>_target", None) if goal else None; `g` is the
\* primary key of the active goal, 0 for None.
TargetOf(gs, g, n) ==
  IF g = 0 THEN None
  ELSE CASE n = "kcal"    -> Some(gs[g].daily_kcal_target)
         [] n = "protein" -> gs[g].daily_protein_target
         [] n = "fat"     -> gs[g].daily_fat_target
         [] n = "carb"    -> gs[g].daily_carb_target

\* 7700 kcal for a kilogram of body weight.
KcalPerKg == 7700

\* WeightLog.objects.filter(user=u).order_by("-date").first(): the primary
\* key of the user's latest WeightLog, 0 for None.
LatestWeight(ws, u) ==
  LET mine == {i \in 1..Len(ws) : ws[i].user = u}
  IN  IF mine = {} THEN 0
      ELSE CHOOSE i \in mine : \A j \in mine : ws[j].date <= ws[i].date

ForecastDue_NoLog(gs, g, latest) ==
  /\ g # 0
  /\ ~IsNone(gs[g].start_weight_kg) /\ Val(gs[g].start_weight_kg) # 0

\* `if goal and goal.start_weight_kg and latest_weight`: a Decimal is true
\* when it is not zero.
ForecastDue(gs, g, latest) ==
  /\ g # 0
  /\ ~IsNone(gs[g].start_weight_kg) /\ Val(gs[g].start_weight_kg) # 0
  /\ latest # 0

goal_start_Window(start_date, start) == start

\* goal_start = max(goal.start_date, start)
goal_start(start_date, start) == IF start_date >= start THEN start_date ELSE start

\* round(num / den, 0) for den > 0: the nearest whole number, a tie going to
\* the even one.
RoundRatio(num, den) ==
  LET q == num \div den
      r == num - q * den
  IN  IF 2 * r < den THEN q
      ELSE IF 2 * r > den THEN q + 1
      ELSE IF q % 2 = 0 THEN q ELSE q + 1

\* days_count = (today - goal_start).days + 1
DaysCount(gs, g, now) ==
  (now - goal_start(gs[g].start_date, now - WindowDays)) + 1

\* deficit_kcal of the forecast, in hundredths of a kcal:
\* float(goal.daily_kcal_target) * days_count - total_kcal, with
\* days_count = (today - goal_start).days + 1 and total_kcal the kcal of the
\* user's MealItems dated goal_start..today.
DeficitKcal(fs, ms, its, gs, g, u, now) ==
  LET from       == goal_start(gs[g].start_date, now - WindowDays)
      total_kcal == SumOver(fs, its, FilterItems(ms, its, u, from, now), "kcal")
  IN  gs[g].daily_kcal_target * DaysCount(gs, g, now) * Per100 - total_kcal

\* weight_forecast of the dashboard: None, or the dictionary of
\* predicted_weight and weight_change (rounded to hundredths of a kg, and
\* held as a number of hundredths) and deficit_kcal (rounded to a whole kcal).
WeightForecast(fs, ms, its, gs, ws, u, now) ==
  LET goal == FirstActiveGoal(gs, u)
  IN  IF ~ForecastDue(gs, goal, LatestWeight(ws, u)) THEN None
      ELSE LET deficit == DeficitKcal(fs, ms, its, gs, goal, u, now)
               start_w == Val(gs[goal].start_weight_kg)
           IN  Some([predicted_weight |->
                       RoundRatio(start_w * Per100 * KcalPerKg - deficit, KcalPerKg),
                     weight_change    |-> RoundRatio(deficit, KcalPerKg),
                     deficit_kcal     |-> RoundRatio(deficit, Per100)])

\* dashboard, authenticated: the 14-day frame, the progress dictionary and
\* the weight forecast of the context it renders.
Dashboard(u) ==
  /\ LET goal  == FirstActiveGoal(goals, u)
         start == today - WindowDays
         df    == reindex(DailyQuery(foodItems, meals, mealItems, u, start, today),
                          date_range(start, today))
     IN  ctx' = [user     |-> u,
                 df       |-> df,
                 progress |-> [n \in Nutrients |->
                                 pct(TodayStat(df, today, n), TargetOf(goals, goal, n))],
                 weight_forecast |->
                   WeightForecast(foodItems, meals, mealItems, goals, weightLogs,
                                  u, today)]
  /\ UNCHANGED <<today, goals, weightLogs, foodItems, meals, mealItems, req>>
  /\ UNCHANGED offVars
  /\ UNCHANGED client

\* The diary entries posted in the dashboard's specification: for u1 two
\* slots of DayZero, the oldest day of the window at DayZero and the day after
\* DayZero; for u2 one entry on DayZero.
DiaryInputs ==
  { <<"u1", [date |-> DayZero,              type |-> "breakfast", food_item |-> 1, grams |-> 50]>>,
    <<"u1", [date |-> DayZero,              type |-> "lunch",     food_item |-> 1, grams |-> 580]>>,
    <<"u1", [date |-> DayZero - WindowDays, type |-> "breakfast", food_item |-> 1, grams |-> 50]>>,
    <<"u1", [date |-> DayZero + 1,          type |-> "breakfast", food_item |-> 2, grams |-> 150]>>,
    <<"u2", [date |-> DayZero,              type |-> "breakfast", food_item |-> 1, grams |-> 150]>> }

\* One worker handles the requests to completion, one after the other; the
\* goals are u1's.
NextDash ==
  \/ \E e \in DiaryInputs : AddMealItemGet("w1", e[1], e[2], Some(e[1]))
  \/ AddMealItemCreate("w1")
  \/ AddMealItemInsert("w1")
  \/ \E f \in GoalInputs : SetGoalRead("w1", "u1", f)
  \/ SetGoalDeactivate("w1")
  \/ SetGoalSave("w1")
  \/ Tick
  \/ \E u \in Users : Dashboard(u)

SpecDash == InitCatalogue /\ [][NextDash]_vars

\* Goals posted in the forecast's specification: one that started before the
\* dashboard's window, one that starts on DayZero, and one without a start
\* weight; the budget is 100 kcal a day.
ForecastGoalInputs ==
  { [ start_date           |-> Some(sd),
      target_date          |-> None,
      start_weight_kg      |-> sw,
      target_weight_kg     |-> None,
      daily_kcal_target    |-> Some(100),
      daily_protein_target |-> None,
      daily_fat_target     |-> None,
      daily_carb_target    |-> None ] :
    <<sd, sw>> \in { <<DayZero - 20, Some(70)>>, <<DayZero, Some(70)>>,
                     <<DayZero, None>> } }

\* Diary entries of the forecast's specification: u1 eats the day's budget on
\* DayZero, less than it the day after, and something on the oldest day of
\* the window; u2 eats on DayZero.
ForecastDiaryInputs ==
  { <<"u1", [date |-> DayZero,              type |-> "breakfast", food_item |-> 1, grams |-> 100]>>,
    <<"u1", [date |-> DayZero + 1,          type |-> "breakfast", food_item |-> 1, grams |-> 50]>>,
    <<"u1", [date |-> DayZero - WindowDays, type |-> "lunch",     food_item |-> 1, grams |-> 50]>>,
    <<"u2", [date |-> DayZero,              type |-> "breakfast", food_item |-> 1, grams |-> 150]>> }

\* One worker handles the requests to completion, one after the other; the
\* goals and the weights are u1's.
NextForecast ==
  \/ \E e \in ForecastDiaryInputs : AddMealItemGet("w1", e[1], e[2], Some(e[1]))
  \/ AddMealItemCreate("w1")
  \/ AddMealItemInsert("w1")
  \/ \E f \in ForecastGoalInputs : SetGoalRead("w1", "u1", f)
  \/ SetGoalDeactivate("w1")
  \/ SetGoalSave("w1")
  \/ AddWeight("w1", "u1", [date |-> Some(DayZero), weight_kg |-> Some(70)])
  \/ Tick
  \/ Dashboard("u1")

SpecForecast == InitCatalogue /\ [][NextForecast]_vars

\* Goals the form accepts, posted next to the ones above: GoalForm has no
\* clean method, start_date is a DateField without bounds and
\* start_weight_kg a DecimalField without validators.  One goal starts after
\* today, one records the start weight 0.
AcceptedGoalInputs ==
  { [ start_date           |-> Some(sd),
      target_date          |-> None,
      start_weight_kg      |-> sw,
      target_weight_kg     |-> None,
      daily_kcal_target    |-> Some(100),
      daily_protein_target |-> None,
      daily_fat_target     |-> None,
      daily_carb_target    |-> None ] :
    <<sd, sw>> \in { <<DayZero - 20, Some(70)>>, <<DayZero, Some(70)>>,
                     <<DayZero + 2, Some(70)>>, <<DayZero, Some(0)>> } }

NextAccepted ==
  \/ \E f \in AcceptedGoalInputs : SetGoalRead("w1", "u1", f)
  \/ SetGoalDeactivate("w1")
  \/ SetGoalSave("w1")
  \/ AddWeight("w1", "u1", [date |-> Some(DayZero), weight_kg |-> Some(70)])
  \/ \E e \in ForecastDiaryInputs : AddMealItemGet("w1", e[1], e[2], Some(e[1]))
  \/ AddMealItemCreate("w1")
  \/ AddMealItemInsert("w1")
  \/ Tick
  \/ Dashboard("u1")

SpecAccepted == InitCatalogue /\ [][NextAccepted]_vars

(* ------------------------ OpenFoodFacts client ------------------------- *)

\* A text is a sequence of characters.  The characters of the queries:
\* letters in two cases and the blank.
Blank == " "

\* str.strip(): the text without its leading and trailing blanks.
RECURSIVE lstrip(_)
lstrip(s) ==
  IF s = <<>> THEN s
  ELSE IF Head(s) = Blank THEN lstrip(Tail(s)) ELSE s

RECURSIVE rstrip(_)
rstrip(s) ==
  IF s = <<>> THEN s
  ELSE IF s[Len(s)] = Blank THEN rstrip(SubSeq(s, 1, Len(s) - 1)) ELSE s

strip_Keep(s) == s

strip(s) == rstrip(lstrip(s))

\* str.lower(), character by character.
LowerChar(c) ==
  CASE c = "A" -> "a"
    [] c = "B" -> "b"
    [] c = "D" -> "d"
    [] c = "K" -> "k"
    [] c = "R" -> "r"
    [] OTHER -> c

lower(s) == [i \in 1..Len(s) |-> LowerChar(s[i])]

\* The queries a caller passes: None, empty, blank, and texts that differ in
\* case and surrounding blanks only.
SearchQueries ==
  {None, Some(<<>>), Some(<<Blank>>), Some(<<"a">>), Some(<<Blank, "A", Blank>>)}

\* The limits a caller passes: below, inside and above the range the client
\* clamps to.
SearchLimits == {0, 30, 40}

\* `query or ""`
OrEmpty(query) == IF IsNone(query) THEN <<>> ELSE Val(query)

MinLimit == 1

MaxLimit == 30

\* min(max(limit, 1), 30)
ClampLimit(limit) ==
  LET low == IF limit >= MinLimit THEN limit ELSE MinLimit
  IN IF low <= MaxLimit THEN low ELSE MaxLimit

\* The 16 hex digits of the SHA-256 of the text: a tag of the text, distinct
\* for the distinct texts of this model.
Sha256Prefix(s) == <<"sha256", s>>

\* OpenFoodFactsClient._cache_key
cache_key_AsTyped(prefix, query, limit) ==
  <<prefix, "v3", Sha256Prefix(strip(query)), ClampLimit(limit)>>

cache_key(prefix, query, limit) ==
  <<prefix, "v3", Sha256Prefix(lower(strip(query))), ClampLimit(limit)>>

\* timeout=60 * 60 * 6, in hours
CacheTimeoutHours == 6

\* cache.get(key): the value of a live entry, or None.
CacheGet_Truthy(c, key, now) ==
  LET live == {e \in c : e.key = key /\ e.expires > now /\ e.value # <<>>}
  IN IF live = {} THEN None ELSE Some((CHOOSE e \in live : TRUE).value)

CacheGet(c, key, now) ==
  LET live == {e \in c : e.key = key /\ e.expires > now}
  IN IF live = {} THEN None ELSE Some((CHOOSE e \in live : TRUE).value)

\* cache.set(key, value, timeout)
CacheSet(c, key, value, now, timeout) ==
  {e \in c : e.key # key}
    \cup {[key |-> key, value |-> value, expires |-> now + timeout]}

\* JSON values as Python holds them, tagged with their type.
JNull == [t |-> "null"]

JStr(s) == [t |-> "str", v |-> s]

JNum(n) == [t |-> "num", v |-> n]

JList(l) == [t |-> "list", v |-> l]

JObj(f) == [t |-> "dict", v |-> f]

JBool(b) == [t |-> "bool", v |-> b]

\* An integer too large for a float (the JSON decoder makes it an int).
JHuge == [t |-> "hugeint"]

NoFields == [k \in {} |-> JNull]

\* bool(v)
Truthy(j) ==
  CASE j.t = "null" -> FALSE
    [] j.t = "str" -> j.v # <<>>
    [] j.t = "num" -> j.v # 0
    [] j.t = "list" -> j.v # <<>>
    [] j.t = "dict" -> DOMAIN j.v # {}
    [] j.t = "bool" -> j.v
    [] j.t = "hugeint" -> TRUE

\* a or b
Or(a, b) == IF Truthy(a) THEN a ELSE b

\* dict.get(k)
Get(d, k) == IF k \in DOMAIN d.v THEN d.v[k] ELSE JNull

\* Whether v.get(...) exists: only a dict has the method.
HasGet(j) == j.t = "dict"

\* The fields of a product in the upstream's answers.
Nutriments(kcal) ==
  JObj(("energy-kcal_100g" :> kcal) @@ ("proteins_100g" :> JNum(3))
       @@ ("fat_100g" :> JStr(<<"1">>)))

Apple ==
  JObj([code |-> JStr(<<"4", "6">>), product_name |-> JStr(<<"apple">>),
        brands |-> JStr(<<"orchard">>), nutriments |-> Nutriments(JNum(52))])

Water ==
  JObj([code |-> JStr(<<"7">>), generic_name |-> JStr(<<"water">>),
        nutriments |-> Nutriments(JNum(0))])

Products(v) == JObj([products |-> v])

\* What the upstream does with one request: the transport fails, the status
\* is an error, the body is not JSON, or the body is the JSON value given.
Failure(kind) == [kind |-> kind, body |-> JNull]

Body(j) == [kind |-> "json", body |-> j]

\* Answers with one product whose nutriments vary in the calorie field; the
\* fat is the number 0, the carbohydrates the text "7", the proteins absent.
CoerceAnswerNames ==
  {"kcal_absent", "kcal_null", "kcal_empty", "kcal_word", "kcal_list",
   "kcal_dict", "kcal_zero", "kcal_number", "kcal_digits", "kcal_true",
   "kcal_false", "kcal_huge"}

OtherNutriments == [fat_100g |-> JNum(0), carbohydrates_100g |-> JStr(<<"7">>)]

KcalField(name) ==
  CASE name = "kcal_null" -> JNull
    [] name = "kcal_empty" -> JStr(<<>>)
    [] name = "kcal_word" -> JStr(<<"traces">>)
    [] name = "kcal_list" -> JList(<<JNum(52)>>)
    [] name = "kcal_dict" -> JObj([value |-> JNum(52)])
    [] name = "kcal_zero" -> JNum(0)
    [] name = "kcal_number" -> JNum(52)
    [] name = "kcal_digits" -> JStr(<<"5", "2">>)
    [] name = "kcal_true" -> JBool(TRUE)
    [] name = "kcal_false" -> JBool(FALSE)
    [] name = "kcal_huge" -> JHuge

Measured(name) ==
  JObj([code |-> JStr(<<"1">>),
        nutriments |->
          JObj(IF name = "kcal_absent" THEN OtherNutriments
               ELSE ("energy-kcal_100g" :> KcalField(name)) @@ OtherNutriments)])

AnswerNames ==
  {"timeout", "network_error", "http_error", "not_json", "json_list",
   "no_products_key", "products_null", "products_empty", "one_product",
   "two_products", "product_without_code", "product_without_nutriments",
   "products_text", "products_number", "entry_null", "entry_text",
   "nutriments_text"}

Answer(name) ==
  CASE name = "timeout" -> Failure("Timeout")
    [] name = "network_error" -> Failure("ConnectionError")
    [] name = "http_error" -> Failure("HTTPError")
    [] name = "not_json" -> Failure("JSONDecodeError")
    [] name = "json_list" -> Body(JList(<<Apple>>))
    [] name = "no_products_key" -> Body(JObj([count |-> JNum(0)]))
    [] name = "products_null" -> Body(Products(JNull))
    [] name = "products_empty" -> Body(Products(JList(<<>>)))
    [] name = "one_product" -> Body(Products(JList(<<Apple>>)))
    [] name = "two_products" -> Body(Products(JList(<<Water, Apple>>)))
    [] name = "product_without_code" ->
         Body(Products(JList(<<JObj([product_name |-> JStr(<<"apple">>)])>>)))
    [] name = "product_without_nutriments" ->
         Body(Products(JList(<<JObj([code |-> JStr(<<Blank, "9">>)])>>)))
    [] name = "products_text" -> Body(Products(JStr(<<"none">>)))
    [] name = "products_number" -> Body(Products(JNum(5)))
    [] name = "entry_null" -> Body(Products(JList(<<JNull>>)))
    [] name = "entry_text" -> Body(Products(JList(<<Apple, JStr(<<"x">>)>>)))
    [] name \in CoerceAnswerNames -> Body(Products(JList(<<Measured(name)>>)))
    [] name = "nutriments_text" ->
         Body(Products(JList(<<JObj([code |-> JStr(<<"4", "6">>),
                                     nutriments |-> JStr(<<"n/a">>)])>>)))

\* {"products": []}
EmptyPayload == Products(JList(<<>>))

\* search._fetch: the payload of one request; every exception of the
\* request, of the status check and of the JSON decoding gives the empty
\* payload, and so does a payload that is not a dict.
fetch(a) ==
  IF a.kind # "json" THEN EmptyPayload
  ELSE IF a.body.t # "dict" THEN EmptyPayload
  ELSE a.body

\* The digits float() reads.
DigitValue(c) ==
  CASE c = "0" -> 0 [] c = "1" -> 1 [] c = "2" -> 2 [] c = "3" -> 3
    [] c = "4" -> 4 [] c = "5" -> 5 [] c = "6" -> 6 [] c = "7" -> 7
    [] c = "8" -> 8 [] c = "9" -> 9 [] OTHER -> -1

RECURSIVE DecimalValue(_)
DecimalValue(s) ==
  IF s = <<>> THEN 0
  ELSE 10 * DecimalValue(SubSeq(s, 1, Len(s) - 1)) + DigitValue(s[Len(s)])

\* float(text) for the texts of this model: a number written in digits, or
\* a ValueError (None here).
ParseFloat(s) ==
  LET d == strip(s)
  IN IF d # <<>> /\ \A i \in 1..Len(d) : DigitValue(d[i]) >= 0
     THEN Some(DecimalValue(d)) ELSE None

\* _to_float raises: float(v) of an int beyond the floats is an
\* OverflowError, which the except clause does not name.
to_float_Raises(j) == j.t = "hugeint"

\* _to_float where it returns: None for None and "", for a text float()
\* cannot read (ValueError) and for a list or dict (TypeError); float(v)
\* otherwise, which for a bool is 1.0 or 0.0.
to_float(j) ==
  CASE j.t = "null" -> None
    [] j.t = "num" -> Some(j.v)
    [] j.t = "bool" -> Some(IF j.v THEN 1 ELSE 0)
    [] j.t = "str" -> IF j.v = <<>> THEN None ELSE ParseFloat(j.v)
    [] OTHER -> None

NutrientFields ==
  {"energy-kcal_100g", "proteins_100g", "fat_100g", "carbohydrates_100g"}

\* str(v) of a text or of a number.
Str(j) == IF j.t = "str" THEN j.v ELSE <<ToString(j.v)>>

\* The name given to a product without one ("no name", in Russian).
NoName == <<"no name">>

\* OffProduct(...) of one entry of the payload that has a code.
OffProduct(p, code) ==
  LET nutr == Or(Get(p, "nutriments"), JObj(NoFields))
  IN [code |-> code,
      name |-> strip(Str(Or(Get(p, "product_name"),
                            Or(Get(p, "generic_name"), JStr(NoName))))),
      brand |-> strip(Str(Or(Get(p, "brands"), JStr(<<>>)))),
      kcal_100g |-> to_float(Get(nutr, "energy-kcal_100g")),
      protein_100g |-> to_float(Get(nutr, "proteins_100g")),
      fat_100g |-> to_float(Get(nutr, "fat_100g")),
      carbs_100g |-> to_float(Get(nutr, "carbohydrates_100g"))]

\* str(p.get("code") or "").strip()
CodeOf(p) == strip(Str(Or(Get(p, "code"), JStr(<<>>))))

\* Whether the loop over data.get("products", []) or [] raises: the value
\* is true and no list (iterating a number is a TypeError, the elements of
\* a text or the keys of a dict have no get), an entry is no dict, or the
\* nutriments of an entry with a code are true and no dict.
EntryRaises(p) ==
  \/ ~HasGet(p)
  \/ /\ CodeOf(p) # <<>>
     /\ LET nutr == Or(Get(p, "nutriments"), JObj(NoFields))
        IN \/ ~HasGet(nutr)
           \/ \E k \in NutrientFields : to_float_Raises(Get(nutr, k))

LoopRaises(data) ==
  LET ps == Or(Get(data, "products"), JList(<<>>))
  IN \/ ps.t # "list"
     \/ \E i \in 1..Len(ps.v) : EntryRaises(ps.v[i])

\* The list the loop builds when it does not raise: the entries that have a
\* code, in the payload's order.
RECURSIVE BuildFrom(_)
BuildFrom(entries) ==
  IF entries = <<>> THEN <<>>
  ELSE LET p == Head(entries)
       IN IF CodeOf(p) = <<>> THEN BuildFrom(Tail(entries))
          ELSE <<OffProduct(p, CodeOf(p))>> \o BuildFrom(Tail(entries))

BuiltProducts(data) ==
  BuildFrom(Or(Get(data, "products"), JList(<<>>)).v)

Fields == <<"code", "product_name", "generic_name", "brands", "nutriments">>

\* base_params, and params_with_country
BaseParams(query, limit) ==
  [search_terms |-> query, page_size |-> ClampLimit(limit),
   fields |-> Fields, countries_tags_en |-> None]

ParamsWithCountry(query, limit) ==
  [BaseParams(query, limit) EXCEPT !.countries_tags_en = Some("russia")]

\* The call has returned `result`, or an exception has left it.
Returned(s, result) ==
  [s EXCEPT !.pc = "idle", !.outcome = "returned", !.result = result]

Raised(s) == [s EXCEPT !.pc = "idle", !.outcome = "raised"]

catalogueVars == <<today, goals, weightLogs, foodItems, meals, mealItems, req, ctx>>

\* search, to its first request: the blank query returns at once; the cache
\* is read (the read may raise) and a value found is returned.
SearchCall(query, limit) ==
  /\ srch.pc = "idle"
  /\ LET q == strip(OrEmpty(query))
         s == [NoSearch EXCEPT !.arg = query, !.query = q, !.limit = limit]
         got == [s EXCEPT !.cacheOps = <<"get">>]
     IN IF q = <<>> THEN srch' = Returned(s, <<>>)
        ELSE \E getWorks \in BOOLEAN :
          LET cached == CacheGet(cache, cache_key("off_search", q, limit), clock)
          IN IF ~getWorks THEN srch' = Raised(got)
             ELSE IF ~IsNone(cached) THEN srch' = Returned(got, Val(cached))
             ELSE srch' = [got EXCEPT !.pc = "fetch"]
  /\ UNCHANGED <<cache, clock>>
  /\ UNCHANGED catalogueVars
  /\ UNCHANGED client

\* Whether `not (data.get("products") or [])`.
NoProducts_Never(data) == FALSE

NoProducts(data) == ~Truthy(Or(Get(data, "products"), JList(<<>>)))

\* The request with the country filter, and the choice of a second one.
SearchFetch(name) ==
  /\ srch.pc = "fetch"
  /\ srch' = [srch EXCEPT
       !.requests = <<ParamsWithCountry(srch.query, srch.limit)>>,
       !.answers = <<name>>,
       !.pc = IF NoProducts(fetch(Answer(name))) THEN "fallback" ELSE "build"]
  /\ UNCHANGED <<cache, clock>>
  /\ UNCHANGED catalogueVars
  /\ UNCHANGED client

\* The request without the filter.
SearchFallback(name) ==
  /\ srch.pc = "fallback"
  /\ srch' = [srch EXCEPT
       !.requests = Append(@, BaseParams(srch.query, srch.limit)),
       !.answers = Append(@, name),
       !.pc = "build"]
  /\ UNCHANGED <<cache, clock>>
  /\ UNCHANGED catalogueVars
  /\ UNCHANGED client

\* The loop over the products of the last payload, the write to the cache
\* (which may raise) and the return.
SearchBuild ==
  /\ srch.pc = "build"
  /\ LET data == fetch(Answer(srch.answers[Len(srch.answers)]))
         products == BuiltProducts(data)
     IN IF LoopRaises(data)
        THEN srch' = Raised(srch) /\ UNCHANGED cache
        ELSE \E setWorks \in BOOLEAN :
          LET put == [srch EXCEPT !.cacheOps = Append(@, "set")]
          IN
          IF ~setWorks THEN srch' = Raised(put) /\ UNCHANGED cache
          ELSE /\ srch' = Returned(put, products)
               /\ cache' = CacheSet(cache,
                             cache_key("off_search", srch.query, srch.limit),
                             products, clock, CacheTimeoutHours)
  /\ UNCHANGED clock
  /\ UNCHANGED catalogueVars
  /\ UNCHANGED client

\* Time passes, half a cache timeout at a time; an entry that has expired
\* is gone.
HoursPerStep == CacheTimeoutHours \div 2

ClockStep ==
  /\ clock < MaxHours
  /\ clock' = clock + HoursPerStep
  /\ cache' = {e \in cache : e.expires > clock'}
  /\ UNCHANGED srch
  /\ UNCHANGED catalogueVars
  /\ UNCHANGED client

NextSearch ==
  \/ \E q \in SearchQueries, l \in SearchLimits : SearchCall(q, l)
  \/ \E n \in AnswerNames : SearchFetch(n)
  \/ \E n \in AnswerNames : SearchFallback(n)
  \/ SearchBuild
  \/ ClockStep

SpecSearch == Init /\ [][NextSearch]_vars

\* Searches for one query whose answers vary in the nutriments.
NextCoerce ==
  \/ SearchCall(Some(<<"a">>), 10)
  \/ \E n \in CoerceAnswerNames \cup {"products_empty"} : SearchFetch(n)
  \/ \E n \in CoerceAnswerNames \cup {"products_empty"} : SearchFallback(n)
  \/ SearchBuild
  \/ ClockStep

SpecCoerce == Init /\ [][NextCoerce]_vars

(* ---------------------------- food_import ------------------------------ *)

\* The codes a form posts: none, blank, and a code without and with a
\* blank before it.
ImportCodes == {None, Some(<<Blank>>), Some(<<"7">>), Some(<<Blank, "7">>)}

\* What the upstream does with the request for one product.
ProductAnswerNames ==
  {"timeout", "http_error", "json_list", "status_0", "no_kcal", "kcal_0",
   "kcal_52"}

Found(product) == JObj([status |-> JNum(1), product |-> product])

WithKcal(kcal) == JObj([product_name |-> JStr(<<"apple">>), nutriments |-> Nutriments(kcal)])

ProductAnswer(name) ==
  CASE name = "none" -> Failure("none")
    [] name = "timeout" -> Failure("Timeout")
    [] name = "http_error" -> Failure("HTTPError")
    [] name = "json_list" -> Body(JList(<<>>))
    [] name = "status_0" -> Body(JObj([status |-> JNum(0)]))
    [] name = "no_kcal" ->
         Body(Found(JObj([nutriments |-> JObj([fat_100g |-> JNum(2)])])))
    [] name = "kcal_0" -> Body(Found(WithKcal(JNum(0))))
    [] name = "kcal_52" -> Body(Found(WithKcal(JStr(<<"5", "2">>))))

\* OpenFoodFactsClient.get_product for a code that is not blank: an
\* exception (of the request, of the status check, of the decoding, or of a
\* get on a value that is no dict), None, or a record.
ProductRaised == [raised |-> TRUE, product |-> None]

ProductReturned(p) == [raised |-> FALSE, product |-> p]

get_product(code, a) ==
  IF a.kind # "json" THEN ProductRaised
  ELSE IF ~HasGet(a.body) THEN ProductRaised
  ELSE IF Get(a.body, "status") # JNum(1) THEN ProductReturned(None)
  ELSE LET p == Or(Get(a.body, "product"), JObj(NoFields))
       IN IF ~HasGet(p) THEN ProductRaised
          ELSE IF ~HasGet(Or(Get(p, "nutriments"), JObj(NoFields)))
          THEN ProductRaised
          ELSE IF \E k \in NutrientFields :
                    to_float_Raises(Get(Or(Get(p, "nutriments"), JObj(NoFields)), k))
          THEN ProductRaised
          ELSE ProductReturned(Some(OffProduct(p, code)))

\* try: p = client.get_product(code) except Exception: p = None
Fetched(code, a) == get_product(code, a).product

\* `not p or p.kcal_100g is None`
ImportAborts_NoRecord(p) == IsNone(p)

ImportAborts(p) == IsNone(p) \/ IsNone(Val(p).kcal_100g)

\* round(v or 0, 2), for the whole numbers of this model.
DensityOrZero(v) == IF IsNone(v) THEN 0 ELSE Val(v)

\* The defaults of update_or_create.
ImportDefaults(p) ==
  [kcal_per_100g    |-> DensityOrZero(p.kcal_100g),
   protein_per_100g |-> DensityOrZero(p.protein_100g),
   fat_per_100g     |-> DensityOrZero(p.fat_100g),
   carb_per_100g    |-> DensityOrZero(p.carbs_100g)]

\* The row update_or_create inserts for a record.
ImportedRow(p) ==
  [user             |-> None,
   kcal_per_100g    |-> ImportDefaults(p).kcal_per_100g,
   protein_per_100g |-> ImportDefaults(p).protein_per_100g,
   fat_per_100g     |-> ImportDefaults(p).fat_per_100g,
   carb_per_100g    |-> ImportDefaults(p).carb_per_100g,
   source           |-> "openfoodfacts",
   external_id      |-> p.code]

\* The row update_or_create leaves when it found one.
UpdatedRow(row, p) ==
  [row EXCEPT !.kcal_per_100g    = ImportDefaults(p).kcal_per_100g,
              !.protein_per_100g = ImportDefaults(p).protein_per_100g,
              !.fat_per_100g     = ImportDefaults(p).fat_per_100g,
              !.carb_per_100g    = ImportDefaults(p).carb_per_100g]

UniqFoodItemSourceExternalId_Off(fs) == TRUE

\* FoodItem.Meta.constraints: UniqueConstraint(fields=["source",
\* "external_id"], condition=~Q(external_id="")).
UniqFoodItemSourceExternalId(fs) ==
  \A i, j \in 1..Len(fs) :
    (fs[i].external_id # <<>> /\ fs[i].source = fs[j].source
       /\ fs[i].external_id = fs[j].external_id) => i = j

\* FoodItem.objects.get(source=..., external_id=...): the primary key of a
\* row found, 0 for DoesNotExist.
FoodGet(fs, source, external_id) ==
  LET found == {i \in 1..Len(fs) :
                  fs[i].source = source /\ fs[i].external_id = external_id}
  IN IF found = {} THEN 0 ELSE CHOOSE i \in found : \A j \in found : i <= j

MissingCode == "Missing product code."

MissingCalories == "Failed to import: missing calories (per 100g)."

\* food_import up to update_or_create: the method, the code, the request to
\* the upstream and the test of the record.  The outcome of a request that
\* ends here is the redirect alone or the message it shows.  The worker
\* holds what the view has read: the code once the method was POST, the
\* upstream's answer once the request was made.
FoodImport(p, method, posted, name) ==
  /\ req[p].pc = "idle"
  /\ LET code == strip(OrEmpty(posted))
         fetched == Fetched(code, ProductAnswer(name))
         r == [pc |-> "fi_get", op |-> "food_import", user |-> "none",
               form |-> [method |-> method, code |-> None, answer |-> "none",
                         product |-> None],
               ref |-> 0, item |-> 0, caught |-> FALSE, outcome |-> "none"]
     IN req' = [req EXCEPT ![p] =
          IF method # "POST" THEN Finished(r, "redirect")
          ELSE IF code = <<>>
          THEN Finished([r EXCEPT !.form.code = posted], MissingCode)
          ELSE IF ImportAborts(fetched)
          THEN Finished([r EXCEPT !.form.code = posted, !.form.answer = name],
                        MissingCalories)
          ELSE [r EXCEPT !.form.code = posted, !.form.answer = name,
                         !.form.product = fetched]]
  /\ ctx' = NoCtx
  /\ UNCHANGED offVars
  /\ UNCHANGED client
  /\ UNCHANGED <<today, goals, weightLogs, foodItems, meals, mealItems>>

\* update_or_create, first statement: the SELECT.
FoodImportGet(p) ==
  /\ req[p].pc = "fi_get"
  /\ LET found == FoodGet(foodItems, "openfoodfacts", Val(req[p].form.product).code)
     IN req' = [req EXCEPT ![p].ref = found,
                           ![p].pc = IF found = 0 THEN "fi_create" ELSE "fi_update"]
  /\ ctx' = NoCtx
  /\ UNCHANGED offVars
  /\ UNCHANGED client
  /\ UNCHANGED <<today, goals, weightLogs, foodItems, meals, mealItems>>

\* update_or_create after DoesNotExist: the INSERT; when the store refuses
\* it (IntegrityError) the row is fetched again and updated.
FoodImportCreate(p) ==
  /\ req[p].pc = "fi_create"
  /\ LET r     == req[p]
         after == Append(foodItems, ImportedRow(Val(r.form.product)))
         again == FoodGet(foodItems, "openfoodfacts", Val(r.form.product).code)
     IN IF UniqFoodItemSourceExternalId(after)
        THEN /\ Len(foodItems) < MaxFoodItems
             /\ foodItems' = after
             /\ req' = [req EXCEPT ![p] =
                          [Finished(r, "added") EXCEPT !.ref = Len(after)]]
        ELSE /\ foodItems' = foodItems
             /\ req' = [req EXCEPT ![p] =
                          IF again # 0
                          THEN [r EXCEPT !.pc = "fi_update", !.ref = again,
                                         !.caught = TRUE]
                          ELSE Finished(r, "IntegrityError")]
  /\ ctx' = NoCtx
  /\ UNCHANGED offVars
  /\ UNCHANGED client
  /\ UNCHANGED <<today, goals, weightLogs, meals, mealItems>>

\* update_or_create on a row found: the defaults are set and the row saved.
FoodImportUpdate(p) ==
  /\ req[p].pc = "fi_update"
  /\ foodItems' = [foodItems EXCEPT ![req[p].ref] =
                     UpdatedRow(@, Val(req[p].form.product))]
  /\ req' = [req EXCEPT ![p] = Finished(req[p], "updated")]
  /\ ctx' = NoCtx
  /\ UNCHANGED offVars
  /\ UNCHANGED client
  /\ UNCHANGED <<today, goals, weightLogs, meals, mealItems>>

\* The manual entries made next to the imports: one valid, one invalid.
ManualInputs == {f \in FoodInputs : f.kcal_per_100g # Some(-40)}

\* The requests made: a GET carries no code, and the upstream is asked (and
\* answers) only when the code posted is not blank.
ImportRequests ==
  {<<"GET", None, "none">>}
    \cup {<<"POST", c, "none">> : c \in {c \in ImportCodes : strip(OrEmpty(c)) = <<>>}}
    \cup {<<"POST", c, n>> : c \in {c \in ImportCodes : strip(OrEmpty(c)) # <<>>},
                             n \in ProductAnswerNames}

NextImport ==
  \/ \E p \in Procs, r \in ImportRequests : FoodImport(p, r[1], r[2], r[3])
  \/ \E p \in Procs : FoodImportGet(p)
  \/ \E p \in Procs : FoodImportCreate(p)
  \/ \E p \in Procs : FoodImportUpdate(p)
  \/ \E f \in ManualInputs : AddFoodManual("w1", f)

SpecImport == Init /\ [][NextImport]_vars

(* ------------------------ add_meal_item, the view ----------------------- *)

\* The form's user keyword as the view gives it: the view builds
\* AddMealItemForm(request.POST, lang=...) and names no user.
ViewFormUser == None

\* add_meal_item, POST: form = AddMealItemForm(request.POST, lang=...);
\* if form.is_valid(): form.save(user=request.user).  The steps of save are
\* AddMealItemCreate and AddMealItemInsert, taken by a request whose form
\* was valid.
AddMealItem(p, u, f) == AddMealItemGet(p, u, f, ViewFormUser)

NextMealView ==
  \/ \E p \in Procs, u \in Users, f \in MealItemInputs({DayZero}, {1, 2}) :
       AddMealItem(p, u, f)
  \/ \E p \in Procs, f \in ManualInputs : AddFoodManual(p, f)

SpecMealView == InitCatalogue /\ [][NextMealView]_vars

(* ----------------------- sessions, login, theme ------------------------- *)

Light == <<"l", "i", "g", "h", "t">>

Dark == <<"d", "a", "r", "k">>

\* _get_theme: the cookie, else the session's value, else "light", stripped
\* and lowercased; "dark" if that is "dark", "light" otherwise.  An empty
\* text is false for `or`.
RawTheme(c) ==
  IF ~IsNone(c.cookie) /\ Val(c.cookie) # <<>> THEN Val(c.cookie)
  ELSE IF ~IsNone(c.session) /\ Val(c.session) # <<>> THEN Val(c.session)
  ELSE Light

get_theme_Raw(c) == RawTheme(c)

get_theme(c) == IF lower(strip(RawTheme(c))) = Dark THEN Dark ELSE Light

\* The theme cookies a browser may come with, and what its session holds.
StartCookies ==
  {None, Some(<<>>), Some(Light), Some(Dark),
   Some(<<Blank, "D", "A", "R", "K", Blank>>), Some(<<"b", "l", "u", "e">>)}

StartSessions == {None, Some(Light), Some(Dark)}

\* What a browser has seen: its last two logins, logouts or theme toggles.
Seen(c, op) == [c EXCEPT !.before = c.last, !.last = op]

\* django.contrib.auth.login: the browser's session belongs to the user.
Login(u) ==
  /\ client.user = "anonymous"
  /\ client' = [Seen(client, "login") EXCEPT !.user = u, !.set_cookie = None]
  /\ UNCHANGED <<today, goals, weightLogs, foodItems, meals, mealItems, req, ctx>>
  /\ UNCHANGED <<cache, clock, srch>>

\* logout_view: the theme is read, the session flushed, and the cookie set
\* on the response; the browser keeps the cookie.
LogoutView ==
  /\ LET theme == get_theme(client)
     IN client' = [Seen(client, "logout") EXCEPT
                     !.user = "anonymous", !.session = None,
                     !.cookie = Some(theme), !.set_cookie = Some(theme)]
  /\ UNCHANGED <<today, goals, weightLogs, foodItems, meals, mealItems, req, ctx>>
  /\ UNCHANGED <<cache, clock, srch>>

\* toggle_theme (POST): the opposite of the current theme goes to the
\* session and to the cookie.
ToggleTheme ==
  /\ LET new_theme == IF get_theme(client) = Light THEN Dark ELSE Light
     IN client' = [Seen(client, "toggle_theme") EXCEPT
                     !.session = Some(new_theme),
                     !.cookie = Some(new_theme), !.set_cookie = Some(new_theme)]
  /\ UNCHANGED <<today, goals, weightLogs, foodItems, meals, mealItems, req, ctx>>
  /\ UNCHANGED <<cache, clock, srch>>

Endpoints ==
  {"dashboard", "food_search", "food_import", "add_meal_item", "add_weight",
   "set_goal", "add_food_manual"}

\* The views under @login_required.
login_required_None(view) == FALSE

login_required(view) ==
  view \in {"food_search", "food_import", "add_meal_item", "add_weight",
            "set_goal", "add_food_manual"}

\* The context of the landing page: render(request, "nutrition/landing.html").
Landing == [user |-> "anonymous"]

\* A request of a browser nobody is logged in at.  The dashboard renders the
\* landing page; login_required answers with the redirect to the login page
\* and the view is not called.  A view called all the same runs with
\* AnonymousUser: add_food_manual, food_import and food_search do not use
\* the user, the others fail on it in their first query.
AnonymousRequest(p, view) ==
  /\ client.user = "anonymous"
  /\ req[p].pc = "idle"
  /\ LET r == [Idle EXCEPT !.op = view, !.user = "anonymous"]
     IN IF view = "dashboard"
        THEN /\ ctx' = Landing
             /\ req' = [req EXCEPT ![p] = Finished(r, "landing")]
             /\ UNCHANGED <<today, goals, weightLogs, foodItems, meals, mealItems>>
             /\ UNCHANGED <<cache, clock, srch, client>>
        ELSE IF login_required(view)
        THEN /\ ctx' = NoCtx
             /\ req' = [req EXCEPT ![p] = Finished(r, "login")]
             /\ UNCHANGED <<today, goals, weightLogs, foodItems, meals, mealItems>>
             /\ UNCHANGED <<cache, clock, srch, client>>
        ELSE IF view = "add_food_manual"
        THEN \E f \in ManualInputs : AddFoodManual(p, f)
        ELSE IF view = "food_import"
        THEN \E i \in ImportRequests : FoodImport(p, i[1], i[2], i[3])
        ELSE IF view = "food_search"
        THEN \E q \in SearchQueries : SearchCall(q, 10)
        ELSE /\ ctx' = NoCtx
             /\ req' = [req EXCEPT ![p] = Finished(r, "TypeError")]
             /\ UNCHANGED <<today, goals, weightLogs, foodItems, meals, mealItems>>
             /\ UNCHANGED <<cache, clock, srch, client>>

\* Requests of the user logged in at the browser.
UserRequest(p) ==
  /\ client.user # "anonymous"
  /\ \/ \E f \in WeightInputs : AddWeight(p, client.user, f)
     \/ \E f \in ManualInputs : AddFoodManual(p, f)
     \/ Dashboard(client.user)

InitAuth ==
  /\ today = DayZero
  /\ goals = <<>>
  /\ weightLogs = <<>>
  /\ foodItems = <<>>
  /\ meals = <<>>
  /\ mealItems = <<>>
  /\ req = [p \in Procs |-> Idle]
  /\ ctx = NoCtx
  /\ cache = {}
  /\ clock = 0
  /\ srch = NoSearch
  /\ \E c \in StartCookies, s \in StartSessions :
       client = [NewClient EXCEPT !.cookie = c, !.session = s]

NextAuth ==
  \/ Login("u1")
  \/ LogoutView
  \/ ToggleTheme
  \/ \E view \in Endpoints : AnonymousRequest("w1", view)
  \/ UserRequest("w1")

SpecAuth == InitAuth /\ [][NextAuth]_vars

(* ============================== claims ================================= *)

GoalRowsOf(gs, u) == {i \in 1..Len(gs) : gs[i].user = u}

\* A worker is between the statements of a set_goal request of user u.
GoalInFlight(u) ==
  \E p \in Procs : req[p].user = u /\ req[p].pc \in {"sg_deactivate", "sg_save"}

\* User u has made a valid goal submission that ran to its end.
GoalSubmitted(u) ==
  \/ GoalRowsOf(goals, u) # {}
  \/ \E p \in Procs : /\ req[p].op = "set_goal" /\ req[p].user = u
                      /\ req[p].outcome \in {"saved", "IntegrityError"}

\* C1: no user ever has more than one active Goal, and once the goal
\* submissions of a user have run to their end (none is between its
\* statements) a user who has submitted has exactly one active Goal.
C1_OneActiveGoalPerUser ==
  \A u \in Users :
    /\ Cardinality({i \in GoalRowsOf(goals, u) : goals[i].is_active}) <= 1
    /\ (GoalSubmitted(u) /\ ~GoalInFlight(u))
         => Cardinality({i \in GoalRowsOf(goals, u) : goals[i].is_active}) = 1

\* A user with two stored goals, one of them active, whose last submission
\* replaced an existing active goal and has finished.
C1_Witness ==
  \E u \in Users, p \in Procs :
    /\ Cardinality(GoalRowsOf(goals, u)) = 2
    /\ Cardinality({i \in GoalRowsOf(goals, u) : goals[i].is_active}) = 1
    /\ ~GoalInFlight(u)
    /\ req[p].op = "set_goal" /\ req[p].user = u
    /\ req[p].outcome = "saved" /\ req[p].ref # 0

\* C2: under any interleaving of two goal submissions of one user, no
\* submission ends in an unhandled uniqueness-constraint error of the store.
C2_NoUniquenessErrorOnGoal ==
  \A p \in Procs :
    ~(req[p].op = "set_goal" /\ req[p].outcome = "IntegrityError")

\* C3: every valid goal submission that is saved adds one Goal row for its
\* user, and no other stored Goal of that user is active afterwards.
C3_EverySubmissionAddsGoalRow ==
  [][\A p \in Procs :
       (SetGoalSave(p) /\ req'[p].outcome = "saved")
         => /\ Cardinality(GoalRowsOf(goals', req[p].user))
                 = Cardinality(GoalRowsOf(goals, req[p].user)) + 1
            /\ \A i \in GoalRowsOf(goals, req[p].user) : ~goals'[i].is_active]_vars

\* C4: a weight submission for a (user, date) that already has a WeightLog
\* does not end in an unhandled uniqueness error of the store.
C4_NoUniquenessErrorOnWeight ==
  \A p \in Procs :
    ~(req[p].op = "add_weight" /\ req[p].outcome = "IntegrityError")

\* C5: a weight submission dated after the current local date is rejected as
\* a validation error and leaves the WeightLog table unchanged: the table
\* changes only by one appended row that is not dated after the current day,
\* so no stored WeightLog is dated after the day it was created.
C5_FutureWeightDateRejected ==
  /\ [](\A i \in 1..Len(weightLogs) : weightLogs[i].date <= weightLogs[i].created_at)
  /\ [][/\ \A p \in Procs :
             ( /\ req'[p] # req[p] /\ req'[p].op = "add_weight"
               /\ ~IsNone(req'[p].form.date) /\ Val(req'[p].form.date) > today )
             => /\ weightLogs' = weightLogs
                /\ req'[p].outcome = "invalid"
        /\ weightLogs' # weightLogs
             => /\ Len(weightLogs') = Len(weightLogs) + 1
                /\ \A i \in 1..Len(weightLogs) : weightLogs'[i] = weightLogs[i]
                /\ weightLogs'[Len(weightLogs')].date <= today]_vars

\* A worker has rejected a submission dated tomorrow while a log is stored.
C5_Witness ==
  \E p \in Procs :
    /\ req[p].op = "add_weight" /\ req[p].outcome = "invalid"
    /\ ~IsNone(req[p].form.date) /\ Val(req[p].form.date) > today
    /\ Len(weightLogs) > 0

MealsOfSlot(ms, u, d, t) ==
  {i \in 1..Len(ms) : ms[i].user = u /\ ms[i].date = d /\ ms[i].type = t}

\* C6: there is at most one Meal per (user, date, slot); the save creates the
\* Meal only when the slot has none, attaches the new MealItem to the Meal of
\* the slot it was posted for, and no step removes or changes a stored Meal.
C6_OneMealPerSlot ==
  /\ [](\A i, j \in 1..Len(meals) :
          (i # j) => <<meals[i].user, meals[i].date, meals[i].type>>
                       # <<meals[j].user, meals[j].date, meals[j].type>>)
  /\ [][/\ Len(meals') >= Len(meals)
        /\ \A i \in 1..Len(meals) : meals'[i] = meals[i]
        /\ \A p \in Procs :
             LET r == req[p]
                 had == MealsOfSlot(meals, r.user, r.form.date, r.form.type)
             IN  /\ (AddMealItemCreate(p) /\ had # {}) => meals' = meals
                 /\ (AddMealItemCreate(p) /\ had = {}) => Len(meals') = Len(meals) + 1
                 /\ AddMealItemInsert(p)
                      => /\ Len(mealItems') = Len(mealItems) + 1
                         /\ mealItems'[Len(mealItems')].meal \in had]_vars

\* Two items have been logged for one slot and one for another slot of the
\* same user and day: two Meals, the first carrying two MealItems.
C6_Witness ==
  /\ Len(meals) = 2 /\ Len(mealItems) = 2
  /\ meals[1].user = meals[2].user /\ meals[1].date = meals[2].date
  /\ mealItems[1].meal = 1 /\ mealItems[2].meal = 1
  /\ \E p \in Procs : req[p].pc = "mi_item" /\ req[p].ref = 2

SavedMealItem(p) ==
  req[p].op = "add_meal_item" /\ req[p].outcome = "saved"

\* C7: no AddMealItemForm.save ends in a uniqueness error of the store, and
\* when two workers have saved an item for the same (user, date, slot) there
\* is exactly one Meal for that slot and it carries both MealItems.
C7_ConcurrentSavesShareMeal ==
  /\ \A p \in Procs :
       ~(req[p].op = "add_meal_item" /\ req[p].outcome = "IntegrityError")
  /\ \A p, q \in Procs :
       ( /\ p # q /\ SavedMealItem(p) /\ SavedMealItem(q)
         /\ req[p].user = req[q].user
         /\ req[p].form.date = req[q].form.date
         /\ req[p].form.type = req[q].form.type )
       => LET slot == MealsOfSlot(meals, req[p].user, req[p].form.date,
                                  req[p].form.type)
          IN  /\ Cardinality(slot) = 1
              /\ req[p].item # req[q].item
              /\ mealItems[req[p].item].meal \in slot
              /\ mealItems[req[q].item].meal \in slot

\* Both workers saved an item for the same slot, and one of them lost the
\* race for the INSERT of the Meal (get_or_create caught the IntegrityError).
C7_Witness ==
  \E p, q \in Procs :
    /\ p # q /\ SavedMealItem(p) /\ SavedMealItem(q)
    /\ req[p].user = req[q].user
    /\ req[p].form.date = req[q].form.date
    /\ req[p].form.type = req[q].form.type
    /\ req[q].caught
    /\ mealItems[req[p].item].meal = mealItems[req[q].item].meal

\* The MealItems of the Meals of user u dated d.
ItemsOn(u, d) ==
  {i \in 1..Len(mealItems) :
     meals[mealItems[i].meal].user = u /\ meals[mealItems[i].meal].date = d}

RECURSIVE ScaledTotal(_, _, _, _)
\* The sum of scale(density, grams) of nutrient n over those of the first k
\* MealItems that belong to a Meal of user u dated d, in hundredths.
ScaledTotal(u, d, n, k) ==
  IF k = 0 THEN 0
  ELSE ScaledTotal(u, d, n, k - 1)
         + (IF k \in ItemsOn(u, d)
            THEN scaled(mealItems[k].grams,
                        DensityOf(foodItems[mealItems[k].food_item], n))
            ELSE 0)

\* The target of nutrient n of the active Goal of user u, None without one.
ActiveTarget(u, n) ==
  LET act == {i \in 1..Len(goals) : goals[i].user = u /\ goals[i].is_active}
  IN  IF act = {} THEN None
      ELSE TargetOf(goals, CHOOSE i \in act : \A j \in act : i <= j, n)

\* a / b (b > 0) truncated toward zero.
TruncatedRatio(a, b) == IF a >= 0 THEN a \div b ELSE -((-a) \div b)

Clamp(x, lo, hi) == IF x < lo THEN lo ELSE IF x > hi THEN hi ELSE x

\* C8: for each of kcal, protein, fat and carb the dashboard's progress is
\* undefined when the active Goal's target of that nutrient is absent or
\* <= 0, and otherwise it is today's total / target * 100 truncated toward
\* zero and then clamped into [0, 100] (50 of 2000 gives 2).
C8_ProgressIsTruncatedRatio ==
  ctx.user # "none" =>
    \A n \in Nutrients :
      LET target == ActiveTarget(ctx.user, n)
          value  == ScaledTotal(ctx.user, today, n, Len(mealItems))
      IN  IF IsNone(target) \/ Val(target) <= 0
          THEN ctx.progress[n] = None
          ELSE /\ ctx.progress[n] =
                    Some(Clamp(TruncatedRatio(value * 100, 100 * Val(target)), 0, 100))
               /\ Val(ctx.progress[n]) \in 0..100

\* C9: the dashboard's daily aggregation has 14 entries, the k-th of them for
\* the day today - 13 + (k - 1) (so ascending, without gap or duplicate), and
\* a day on which the user has no MealItem has total 0 for each nutrient.
C9_OneEntryPerDay ==
  ctx.user # "none" =>
    /\ Len(ctx.df) = 14
    /\ \A k \in 1..Len(ctx.df) : ctx.df[k].day = today - 13 + (k - 1)
    /\ \A k \in 1..Len(ctx.df), n \in Nutrients :
         ItemsOn(ctx.user, ctx.df[k].day) = {} => Column(ctx.df[k], n) = 0

\* A dashboard of a user with MealItems on the first and on the last day of
\* the range and none on the day before the last.
C9_Witness ==
  /\ ctx.user # "none"
  /\ ItemsOn(ctx.user, today - 13) # {}
  /\ ItemsOn(ctx.user, today) # {}
  /\ ItemsOn(ctx.user, today - 1) = {}
  /\ Column(ctx.df[1], "kcal") # 0
  /\ Column(ctx.df[13], "kcal") = 0

\* C10: for each day of the dashboard's aggregation and each nutrient, the
\* total is the sum of scale(density, grams) = grams/100 x density over
\* exactly the MealItems whose Meal is the requesting user's and dated that
\* day, with scale(d, 0) = 0; no other MealItem contributes.
C10_TotalsAreUsersItemsOfDay ==
  /\ \A i \in 1..Len(foodItems), n \in Nutrients :
       scaled(0, DensityOf(foodItems[i], n)) = 0
  /\ ctx.user # "none" =>
       \A k \in 1..Len(ctx.df), n \in Nutrients :
         Column(ctx.df[k], n)
           = ScaledTotal(ctx.user, ctx.df[k].day, n, Len(mealItems))

\* A dashboard of a user who has a MealItem today while another user has one
\* today as well, and a third MealItem lies outside the range or there is none.
C10_Witness ==
  /\ ctx.user # "none"
  /\ ItemsOn(ctx.user, today) # {}
  /\ \E u \in Users \ {ctx.user} : ItemsOn(u, today) # {}
  /\ Column(ctx.df[Len(ctx.df)], "kcal") # 0

\* The amounts the dashboard adds up are floats exactly: whole multiples of a
\* quarter, so that the sums of the aggregation lose nothing.
AmountsExact ==
  \A i \in 1..Len(mealItems), n \in Nutrients :
    scaled(mealItems[i].grams,
           DensityOf(foodItems[mealItems[i].food_item], n)) % 25 = 0

\* The active Goals of user u.
ActiveGoalsOf(u) == {i \in 1..Len(goals) : goals[i].user = u /\ goals[i].is_active}

\* C11: the dashboard's weight_forecast is absent whenever the user has no
\* WeightLog (even with an active Goal that has a start weight), whenever the
\* user has no active Goal, and whenever the active Goal has no start weight.
C11_NoForecastWithoutInputs ==
  ctx.user # "none" =>
    ( ( \/ \A i \in 1..Len(weightLogs) : weightLogs[i].user # ctx.user
        \/ ActiveGoalsOf(ctx.user) = {}
        \/ \A g \in ActiveGoalsOf(ctx.user) : goals[g].start_weight_kg = None )
      => ctx.weight_forecast = None )

\* A dashboard of a user who has an active Goal with a start weight and no
\* WeightLog: no forecast.
C11_Witness ==
  /\ ctx.user # "none"
  /\ \E g \in ActiveGoalsOf(ctx.user) : goals[g].start_weight_kg # None
  /\ \A i \in 1..Len(weightLogs) : weightLogs[i].user # ctx.user
  /\ ctx.weight_forecast = None

\* The later of two days.
LaterDay(a, b) == IF a >= b THEN a ELSE b

RECURSIVE KcalLogged(_, _, _)
\* The kcal user u logged on the days lo..hi, in hundredths.
KcalLogged(u, lo, hi) ==
  IF hi < lo THEN 0
  ELSE KcalLogged(u, lo, hi - 1) + ScaledTotal(u, hi, "kcal", Len(mealItems))

\* `out` is num / den rounded to a nearest whole number (den > 0).
IsNearest(out, num, den) ==
  /\ 2 * (out * den - num) <= den
  /\ 2 * (num - out * den) <= den

\* C12: a forecast that is produced has, with effective_start =
\* max(goal.start_date, today - 13), days_count = (today - effective_start)
\* + 1 and actual = the user's kcal logged from effective_start to today:
\* deficit = daily_kcal_target * days_count - actual, weight_change =
\* deficit / 7700 and predicted_weight = start_weight_kg - weight_change,
\* each in its output rounding (kcal, hundredths of a kg).  Eating exactly
\* the budget predicts the start weight; eating less predicts no higher a
\* weight, and a lower one from 77 kcal of deficit on.
C12_ForecastFormula ==
  (ctx.user # "none" /\ ctx.weight_forecast # None) =>
    \A g \in ActiveGoalsOf(ctx.user) :
      LET effective_start == LaterDay(goals[g].start_date, today - 13)
          days_count      == (today - effective_start) + 1
          actual          == KcalLogged(ctx.user, effective_start, today)
          deficit         == goals[g].daily_kcal_target * days_count * 100 - actual
          start_weight    == Val(goals[g].start_weight_kg) * 100
          out             == Val(ctx.weight_forecast)
      IN  /\ IsNearest(out.deficit_kcal, deficit, 100)
          /\ IsNearest(out.weight_change, deficit, 7700)
          /\ IsNearest(out.predicted_weight, start_weight * 7700 - deficit, 7700)
          /\ deficit = 0 => out.predicted_weight = start_weight
          /\ deficit > 0 => out.predicted_weight <= start_weight
          /\ deficit >= 7700 => out.predicted_weight < start_weight

\* A forecast for a Goal that started inside the dashboard's window, of a
\* user who ate exactly the budget since and has an older entry inside the
\* window: the start weight is predicted.
C12_Witness ==
  /\ ctx.user # "none" /\ ctx.weight_forecast # None
  /\ \E g \in ActiveGoalsOf(ctx.user) :
       /\ goals[g].start_date > today - 13
       /\ KcalLogged(ctx.user, today - 13, goals[g].start_date - 1) > 0
       /\ KcalLogged(ctx.user, goals[g].start_date, today) > 0
       /\ Val(ctx.weight_forecast).predicted_weight
            = Val(goals[g].start_weight_kg) * 100
       /\ Val(ctx.weight_forecast).deficit_kcal = 0

\* No forecast of the model rounds a tie: the float the code rounds is then
\* on the same side of every rounding boundary as the exact number.
NoRoundingTies ==
  (ctx.user # "none" /\ ctx.weight_forecast # None) =>
    LET deficit == DeficitKcal(foodItems, meals, mealItems, goals,
                               FirstActiveGoal(goals, ctx.user), ctx.user, today)
    IN  /\ (2 * deficit) % (2 * Per100) # Per100
        /\ (2 * deficit) % (2 * KcalPerKg) # KcalPerKg

\* C13: a call of search with a blank query (None, empty, or blanks only)
\* returns the empty sequence in its first step, having made no request and
\* having neither read nor written the cache.
IsBlankQuery(arg) == IsNone(arg) \/ \A i \in 1..Len(Val(arg)) : Val(arg)[i] = Blank

SearchCalled == srch.pc = "idle" /\ srch' # srch

C13_BlankQueryReturnsEmpty ==
  [][SearchCalled /\ IsBlankQuery(srch'.arg) =>
       /\ srch'.pc = "idle"
       /\ srch'.outcome = "returned"
       /\ srch'.result = <<>>
       /\ srch'.requests = <<>>
       /\ srch'.cacheOps = <<>>
       /\ cache' = cache]_vars

C13_Witness ==
  /\ srch.outcome = "returned"
  /\ srch.arg = Some(<<Blank>>)
  /\ srch.result = <<>>
  /\ cache # {}

\* The records expected of the upstream's answers, written out.
AppleRecord ==
  [code |-> <<"4", "6">>, name |-> <<"apple">>, brand |-> <<"orchard">>,
   kcal_100g |-> {52}, protein_100g |-> {3}, fat_100g |-> {1}, carbs_100g |-> {}]

WaterRecord ==
  [code |-> <<"7">>, name |-> <<"water">>, brand |-> <<>>,
   kcal_100g |-> {0}, protein_100g |-> {3}, fat_100g |-> {1}, carbs_100g |-> {}]

BareRecord ==
  [code |-> <<"9">>, name |-> <<"no name">>, brand |-> <<>>,
   kcal_100g |-> {}, protein_100g |-> {}, fat_100g |-> {}, carbs_100g |-> {}]

\* The number of entries in the list of products an answer delivers; none
\* when the request failed or the payload has no such list.
ListedProducts(name) ==
  CASE name \in {"one_product", "product_without_code",
                 "product_without_nutriments", "entry_null", "nutriments_text"} -> 1
    [] name \in {"two_products", "entry_text"} -> 2
    [] OTHER -> 0

RecordsOf(name) ==
  CASE name = "one_product" -> <<AppleRecord>>
    [] name = "two_products" -> <<WaterRecord, AppleRecord>>
    [] name = "product_without_nutriments" -> <<BareRecord>>
    [] OTHER -> <<>>

\* C14: on a cache miss the first request has the regional filter; a second
\* request is made only after a first that yielded no products, it is the
\* last and has no regional filter; a search that returned made the second
\* request exactly if the first yielded no products, and its records are
\* those of the last request's answer.  Every request asks for the
\* restricted fields, nutriments among them.
C14_RegionalThenFallback ==
  LET n == Len(srch.requests)
  IN /\ n <= 2
     /\ Len(srch.answers) = n
     /\ n >= 1 => srch.requests[1].countries_tags_en = {"russia"}
     /\ n = 2 => /\ ListedProducts(srch.answers[1]) = 0
                 /\ srch.requests[2].countries_tags_en = {}
     /\ \A i \in 1..n :
          /\ \E k \in 1..Len(srch.requests[i].fields) :
               srch.requests[i].fields[k] = "nutriments"
          /\ srch.requests[i].fields =
               <<"code", "product_name", "generic_name", "brands", "nutriments">>
     /\ srch.outcome = "returned" /\ n >= 1 =>
          /\ (n = 2) <=> (ListedProducts(srch.answers[1]) = 0)
          /\ srch.result = RecordsOf(srch.answers[n])

C14_Witness ==
  /\ srch.outcome = "returned"
  /\ srch.answers = <<"products_empty", "two_products">>
  /\ srch.result = <<WaterRecord, AppleRecord>>

\* C15: whatever the upstream answers (a failed request, a body that is no
\* JSON or no object, a products value that is no list, entries that are no
\* objects or are malformed), a search that has made its requests does not
\* raise on account of them: it goes on to the cache write and, unless that
\* write fails, returns a sequence.
AnswersHandled ==
  srch.pc = "idle" /\ srch.requests # <<>> /\ srch.cacheOps = <<"get">>

C15_UpstreamFailureNeverRaises ==
  /\ ~(AnswersHandled /\ srch.outcome = "raised")
  /\ srch.outcome = "returned" => srch.result \in Seq({AppleRecord, WaterRecord, BareRecord})

\* C16: when search is called with a query and a limit while the cache holds
\* a live entry stored for a query that is the same up to letter case and
\* surrounding blanks and for a limit that clamps to the same value, the
\* call ends in its first step without a request, and what it returns is
\* the stored value.  (A cache whose read fails is the subject of C17.)
KeyQuery(e) == e.key[3][2]

KeyLimit(e) == e.key[4]

StoredFor(e, arg, limit) ==
  /\ lower(strip(KeyQuery(e))) = lower(strip(Val(arg)))
  /\ KeyLimit(e) = ClampLimit(limit)

C16_CacheHitBypassesNetwork ==
  [][SearchCalled /\ ~IsBlankQuery(srch'.arg) =>
       \A e \in cache :
         e.expires > clock /\ StoredFor(e, srch'.arg, srch'.limit) =>
           /\ srch'.pc = "idle"
           /\ srch'.requests = <<>>
           /\ cache' = cache
           /\ srch'.outcome = "returned" => srch'.result = e.value]_vars

C16_Witness ==
  /\ srch.outcome = "returned"
  /\ srch.arg = Some(<<Blank, "A", Blank>>)
  /\ srch.limit = 40
  /\ srch.cacheOps = <<"get">>
  /\ srch.requests = <<>>
  /\ srch.result = <<AppleRecord>>
  /\ clock = 3
  /\ \E e \in cache :
       KeyQuery(e) = <<"a">> /\ KeyLimit(e) = 30 /\ e.expires = 6 /\ e.value = srch.result

\* C17: a cache whose read or write fails does not make search raise: a
\* call that raised did so in handling the upstream's answers (C15), never
\* before its first request (the read) or after the cache write.
C17_CacheFailureIsAMiss ==
  srch.outcome = "raised" =>
    /\ srch.requests # <<>>
    /\ srch.cacheOps = <<"get">>

\* The upstream's answers by what the claims say of them: the request
\* failed or its handling raised; a record came without calorie density; a
\* record came with one.
AnswerRaises == {"timeout", "http_error", "json_list"}

AnswerLacksKcal == {"no_kcal"}

AnswerHasKcal == {"kcal_0", "kcal_52"}

Importing(r) == r.op = "food_import" /\ r.pc # "idle"

ImportMayWrite(r) ==
  /\ r.form.method = "POST"
  /\ ~IsBlankQuery(r.form.code)
  /\ r.form.answer \in AnswerHasKcal

ImportStepOf(p) == req'[p] # req[p] /\ req'[p].op = "food_import"

NoImportStep == \A p \in Procs : ~ImportStepOf(p)

\* C18: a food_import request gets to the FoodItem table only when it was a
\* POST with a code that is not blank and the upstream delivered a record
\* with a calorie density (0 counts); every other request ends in its first
\* step, and a step that changes the table is a step of such an import or
\* no step of an import at all (the save of a manual entry).
C18_ImportAbortsWithoutKcal ==
  [][/\ \A p \in Procs : Importing(req'[p]) => ImportMayWrite(req'[p])
     /\ foodItems' # foodItems =>
          \/ NoImportStep
          \/ \E p \in Procs :
               ImportStepOf(p) /\ Importing(req[p]) /\ ImportMayWrite(req[p])]_vars

C18_Witness ==
  \E p \in Procs :
    /\ req[p].op = "food_import"
    /\ req[p].outcome = "added"
    /\ req[p].form.answer = "kcal_0"
    /\ foodItems[req[p].ref].kcal_per_100g = 0
    /\ foodItems[req[p].ref].external_id = <<"7">>

\* C19: the outcome of an import whose request to the upstream failed
\* differs from the outcome of an import whose record has no calorie
\* density.
ImportEnded(r) == r.op = "food_import" /\ r.pc = "idle" /\ r.form.answer # "none"

C19_MissingKcalDistinctFromFailure ==
  \A p, q \in Procs :
    /\ ImportEnded(req[p]) /\ req[p].form.answer \in AnswerRaises
    /\ ImportEnded(req[q]) /\ req[q].form.answer \in AnswerLacksKcal
    => req[p].outcome # req[q].outcome

\* C20: no two FoodItems have the same source and the same external id
\* unless the id is empty; an import of a code that has a row adds none; a
\* manual entry saved adds a row of its own and leaves the others as they
\* are; an import leaves the manual rows as they are.
RowsOfCode(fs, code) ==
  {i \in 1..Len(fs) : fs[i].source = "openfoodfacts" /\ fs[i].external_id = code}

ManualRows(fs) == {i \in 1..Len(fs) : fs[i].external_id = <<>>}

C20_OneFoodItemPerExternalId ==
  [][/\ \A i, j \in 1..Len(foodItems') :
          (foodItems'[i].external_id # <<>>
             /\ foodItems'[i].source = foodItems'[j].source
             /\ foodItems'[i].external_id = foodItems'[j].external_id) => i = j
     /\ \A c \in {<<"7">>} :
          RowsOfCode(foodItems, c) # {} =>
            Cardinality(RowsOfCode(foodItems', c)) = 1
     /\ \A i \in ManualRows(foodItems) :
          i <= Len(foodItems') /\ foodItems'[i] = foodItems[i]
     /\ NoImportStep /\ foodItems' # foodItems =>
          /\ Len(foodItems') = Len(foodItems) + 1
          /\ foodItems'[Len(foodItems')].external_id = <<>>
          /\ SubSeq(foodItems', 1, Len(foodItems)) = foodItems]_vars

C20_Witness ==
  /\ \E p \in Procs :
       /\ req[p].op = "food_import"
       /\ req[p].outcome = "updated"
       /\ req[p].caught
       /\ RowsOfCode(foodItems, <<"7">>) = {req[p].ref}
  /\ \E i, j \in ManualRows(foodItems) : i # j /\ foodItems[i] = foodItems[j]

\* C21: a request of search that timed out is the last request of that
\* call, and the call, once it has returned, has returned the empty
\* sequence.
C21_NoRequestAfterTimeout ==
  \A i \in 1..Len(srch.answers) :
    srch.answers[i] = "timeout" =>
      /\ Len(srch.requests) = i
      /\ srch.outcome = "returned" => srch.result = <<>>

\* C23: in the record search builds from a product, the calorie density is
\* undefined when the upstream's field is absent, null, empty or not a
\* number (a word, a list, an object, a truth value), and is the number
\* when the field is a number or a number written as text; the other three
\* densities are what their own fields give; no value of the field makes
\* the search raise.
KcalExpected(name) ==
  CASE name \in {"kcal_number", "kcal_digits"} -> {52}
    [] name = "kcal_zero" -> {0}
    [] OTHER -> {}

Coerced == Len(srch.answers) >= 1 /\ srch.answers[Len(srch.answers)] \in CoerceAnswerNames

C23_NutrientCoercionIsTotal ==
  /\ ~(srch.pc = "idle" /\ Coerced /\ srch.cacheOps = <<"get">>
         /\ srch.outcome = "raised")
  /\ srch.outcome = "returned" /\ Coerced /\ srch.cacheOps = <<"get", "set">> =>
       /\ Len(srch.result) = 1
       /\ srch.result[1].kcal_100g = KcalExpected(srch.answers[Len(srch.answers)])
       /\ srch.result[1].protein_100g = {}
       /\ srch.result[1].fat_100g = {0}
       /\ srch.result[1].carbs_100g = {7}

\* C22: while nobody is logged in at the browser, no request to the six
\* protected endpoints (nor any other step) changes a stored goal, weight
\* log, food item, meal or meal item, sends a request to the catalogue or
\* touches its cache; each protected request is answered with the redirect
\* to the login page, and the dashboard with the landing page.
C22_AnonymousChangesNothing ==
  [][client.user = "anonymous" =>
       /\ <<goals, weightLogs, foodItems, meals, mealItems>>' =
            <<goals, weightLogs, foodItems, meals, mealItems>>
       /\ srch' = srch
       /\ cache' = cache
       /\ \A p \in Procs :
            req'[p] # req[p] =>
              /\ req'[p].pc = "idle"
              /\ req'[p].op = "dashboard" =>
                   req'[p].outcome = "landing" /\ ctx' = [user |-> "anonymous"]
              /\ req'[p].op # "dashboard" => req'[p].outcome = "login"]_vars

\* Somebody logged in, stored data, logged out, and a protected endpoint was
\* requested from the browser afterwards.
C22_Witness ==
  /\ client.user = "anonymous"
  /\ client.last = "logout"
  /\ foodItems # <<>>
  /\ weightLogs # <<>>
  /\ \E p \in Procs :
       /\ req[p].op = "add_food_manual"
       /\ req[p].outcome = "login"

\* The theme values that read as dark, written out; every other value, and
\* no value at all, reads as light.  The cookie goes before the session.
DarkValues == {<<"d", "a", "r", "k">>, <<" ", "D", "A", "R", "K", " ">>}

CurrentIsDark(c) ==
  IF c.cookie \notin {{}, {<<>>}}
  THEN \E v \in DarkValues : c.cookie = {v}
  ELSE \E v \in DarkValues : c.session = {v}

ThemeStep(op) == client' # client /\ client'.last = op

\* C24: every theme cookie the server sets is light or dark; toggle_theme
\* sets the cookie to the opposite of the current theme, a missing or
\* unrecognised value counting as light; and the logout that follows a
\* toggle sets the cookie to the value the toggle set, whatever the theme
\* cookie and session were at the start.
C24_ThemeSurvivesLogout ==
  [][/\ client'.set_cookie \in
          {{}, {<<"l", "i", "g", "h", "t">>}, {<<"d", "a", "r", "k">>}}
     /\ ThemeStep("toggle_theme") =>
          /\ client'.set_cookie =
               IF CurrentIsDark(client) THEN {<<"l", "i", "g", "h", "t">>}
               ELSE {<<"d", "a", "r", "k">>}
          /\ client'.cookie = client'.set_cookie
     /\ ThemeStep("logout") /\ client.last = "toggle_theme" =>
          /\ client'.set_cookie = client.set_cookie
          /\ client'.cookie = client.set_cookie
          /\ client'.user = "anonymous"]_vars

\* A toggle that set the cookie to dark, followed by a logout that set it
\* to dark again.
C24_Witness ==
  /\ client.before = "toggle_theme"
  /\ client.last = "logout"
  /\ client.user = "anonymous"
  /\ client.session = {}
  /\ client.set_cookie = {<<"d", "a", "r", "k">>}

\* C25: a POST to add_meal_item by a logged-in user with a date, a slot,
\* grams of at least 1 and a FoodItem that is ownerless or the user's own is
\* accepted, that is, it is not answered as invalid: the choice set the
\* view validates against is the ownerless and own FoodItems.
C25_ViewAcceptsVisibleFood ==
  [][\A p \in Procs :
       /\ req'[p] # req[p]
       /\ req[p].pc = "idle"
       /\ req'[p].op = "add_meal_item"
       /\ req'[p].form.grams >= 1
       /\ req'[p].form.food_item \in 1..Len(foodItems)
       /\ foodItems[req'[p].form.food_item].user \in {{}, {req'[p].user}}
       => req'[p].outcome # "invalid"]_vars

\* The context of a dashboard rendered for a user whose active goal the
\* dashboard found.
Rendered(u) == ctx.user = u /\ FirstActiveGoal(goals, u) # 0

\* C26: whenever the dashboard computes a weight forecast, days_count lies
\* between 1 and 14, for every active goal the form accepts, a goal that
\* starts after today included.
C26_DaysCountInWindow ==
  \A u \in Users :
    Rendered(u) /\ ctx.weight_forecast # {} =>
      LET g    == goals[FirstActiveGoal(goals, u)]
          from == IF g.start_date > today - 13 THEN g.start_date ELSE today - 13
      IN  /\ today - from + 1 \in 1..14
          /\ DaysCount(goals, FirstActiveGoal(goals, u), today) \in 1..14

\* C28: the dashboard produces a weight forecast whenever the user has an
\* active goal with a start weight that is not null and at least one weight
\* log, whatever start weight the form accepted, 0 included.
C28_ForecastForEveryStartWeight ==
  \A u \in Users :
    /\ Rendered(u)
    /\ goals[FirstActiveGoal(goals, u)].start_weight_kg # {}
    /\ \E i \in 1..Len(weightLogs) : weightLogs[i].user = u
    => ctx.weight_forecast # {}

\* The answers that are a failure of the request.
UpstreamFailed == {"timeout", "network_error", "http_error", "not_json"}

\* C27: a search that returns after a cache miss has stored what it returns
\* for six hours, the empty result after two failed requests included; and
\* a search called while a live entry with the empty result is stored for
\* the same normalised query and clamped limit returns the empty result
\* without a request.  (A cache whose read or write fails is the subject of
\* C17.)
C27_EmptyResultIsCached ==
  [][/\ srch.pc = "build" /\ srch'.outcome = "returned" =>
          /\ \E e \in cache' :
               /\ StoredFor(e, srch.arg, srch.limit)
               /\ e.value = srch'.result
               /\ e.expires = clock + 6
          /\ (\A i \in 1..Len(srch.answers) : srch.answers[i] \in UpstreamFailed)
               => Len(srch.answers) = 2 /\ srch'.result = <<>>
     /\ SearchCalled /\ ~IsBlankQuery(srch'.arg) /\ srch'.outcome # "raised" =>
          \A e \in cache :
            e.expires > clock /\ StoredFor(e, srch'.arg, srch'.limit) /\ e.value = <<>> =>
              /\ srch'.pc = "idle"
              /\ srch'.outcome = "returned"
              /\ srch'.result = <<>>
              /\ srch'.requests = <<>>
              /\ cache' = cache]_vars

\* The empty result stored at hour 0 for 'a' with limit 30 is returned at
\* hour 3 to a search for ' A ' with limit 40, without a request.
C27_Witness ==
  /\ srch.outcome = "returned"
  /\ srch.arg = {<<" ", "A", " ">>}
  /\ srch.limit = 40
  /\ srch.cacheOps = <<"get">>
  /\ srch.requests = <<>>
  /\ srch.result = <<>>
  /\ clock = 3
  /\ \E e \in cache :
       KeyQuery(e) = <<"a">> /\ KeyLimit(e) = 30 /\ e.expires = 6 /\ e.value = <<>>

====
